---- MODULE Spec2Model ----
(***************************************************************************)
(* Market-data pipeline of ai-wealth: the live tick stream manager of     *)
(* services/chartDataService.ts (connectMarketWebSocket and friends), the *)
(* websocketService singleton, the candle fetcher with its cache and      *)
(* in-flight request registry, the polling fallback, and the chart view   *)
(* of components/AssetDetails.tsx that drives them.                        *)
(*                                                                         *)
(* One JavaScript task (a call made by a consumer, a socket event, a timer *)
(* callback, a promise continuation) is one action.  Time is the value     *)
(* Date.now() would return, counted in ms from a Monday 00:00:00 IST.      *)
(***************************************************************************)
EXTENDS Integers, Sequences, FiniteSets, TLC

\* ------------------------------------------------------------------ bounds
MaxSockets == 2        \* WebSocket objects of one manager alive at once
MaxTimers == 1         \* reconnect timers of one manager pending at once
MaxAdvances == 2       \* clock advances in one behaviour
MaxFetches == 2        \* network requests in flight at once
MaxLen == 3            \* candles in a list handed to the normalizer
MaxWeeks == 1          \* weeks the instants handed to the market-day helpers span
MaxIntervals == 1      \* setInterval timers of the polling fallback alive at once
MaxSearches == 1       \* searchInstruments calls of the chart view awaited at once
MaxChartAdvances == 1  \* clock advances in one behaviour of the opened and closed view

\* ------------------------------------------------------- program constants
NULL == 0
MAX_RECONNECT_ATTEMPTS == 5
maxReconnectAttempts == 5
CONFIGURED_REAL_BACKEND == TRUE
MsPerMinute == 60000
MsPerDay == 24 * 60 * MsPerMinute
CACHE_TTL == 5 * 60 * 1000
NaN == -777777         \* stands for the JavaScript number NaN
Undefined == -888888   \* stands for the JavaScript value undefined
Infinity == 999999     \* stands for the JavaScript number Infinity (-Infinity: its negative)

InstrumentKeys == {"NSE_EQ|A", "NSE_EQ|B"}
Timeframes == {"1D", "1W"}
Intervals == {"1m", "1d"}
KeyLists == {{"NSE_EQ|A"}, {"NSE_EQ|B"}}

\* Monday 09:14:59 IST, one second before the session opens
StartOfRun == (9 * 60 + 14) * MsPerMinute + 59000
\* one step reaches 15:30:59 (session open), the next 21:46:59 (closed)
MarketClockSteps == {(6 * 60 + 16) * MsPerMinute}
\* one second less than the cache TTL: an entry is fresh after one step and
\* stale after two
FetchClockSteps == {CACHE_TTL - 1000}
\* the polling period, which reaches 09:15:06 (session open), and the step
\* that leaves the session: 15:30:59 from the start, 15:31:06 after a period
PollClockSteps == {7000, (6 * 60 + 16) * MsPerMinute}

VARIABLES
    now,                  \* Date.now(), ms since Monday 00:00 IST
    advances,             \* number of clock advances so far
    token,                \* localStorage holds a jwt_token
    \* --- chartDataService stream manager
    wsConnection,         \* socket id or NULL
    wsReconnectAttempts,
    wsReconnectTimer,     \* timer id or NULL
    sockets,              \* the WebSocket objects created by connectMarketWebSocket
    timers,               \* the setTimeout timers created by its onclose
    emitted,              \* statuses passed to onConnectionChange by the last task, in order
    deliberate,           \* history: disconnectMarketWebSocket ran, no consumer connect since
    requestedKeys,        \* history: keys passed to connect calls since the last disconnect
    runDelays,            \* history: delays scheduled since the last open / disconnect
    \* --- websocketService (const state)
    demoMode,             \* localStorage holds dj_ai_demo_mode = 'true'
    socket,               \* state.socket: socket id or NULL
    isConnected,          \* state.isConnected
    subscribedKeys,       \* state.subscribedKeys
    reconnectAttempts,    \* state.reconnectAttempts
    wssSockets,           \* the WebSocket objects created by websocketService.connect
    wssTimers,            \* number of pending setTimeout(() => connect()) timers
    wantedKeys,           \* history: keys subscribed and not unsubscribed since the last disconnect
    wssDeliberate,        \* history: disconnect ran, no consumer connect since
    \* --- chartDataService candle fetcher
    candleCache,          \* cache key -> NoEntry or [data, timestamp, by]
    activeRequests,       \* cache key -> NULL or the request owning the AbortController
    requests,             \* the fetch() calls whose continuation has not finished
    lastCall,             \* history: what the getCandle* call or continuation returned at this instant
    \* --- chartDataService polling fallback
    pollingInterval,      \* interval id or NULL
    currentPollingInstrument, \* instrument key or NoInstrument
    intervals,            \* the setInterval timers created by startPollingFallback
    \* --- components/AssetDetails.tsx
    chartData,            \* the displayed series
    isLoadingChart,       \* the isLoadingChart state
    chartError,           \* TRUE when the chartError state holds a message
    isOpen,               \* the isOpen prop; the asset prop is null when it is false
    instrumentKeyRef,     \* instrumentKeyRef.current: instrument key or NoInstrument
    searching,            \* loadChartData calls awaiting searchInstruments, counted
                          \* by the timeframe and interval each closed over and
                          \* the forceRefresh each was called with
    strategySearching,    \* fetchStrategy calls awaiting searchInstruments
    selected,             \* the timeframe and interval state of the view
    \* --- a pure function of chartDataService applied to an argument
    input,                \* the argument
    result,               \* what the function returned
    op                    \* the function applied last, "none" before any

wsVars == <<wsConnection, wsReconnectAttempts, wsReconnectTimer, sockets, timers,
            emitted, deliberate, requestedKeys, runDelays>>
wssVars == <<socket, isConnected, subscribedKeys, reconnectAttempts, wssSockets,
             wssTimers, wantedKeys, wssDeliberate>>
fetchVars == <<candleCache, activeRequests, requests, lastCall>>
envVars == <<now, advances, token, demoMode>>
pureVars == <<input, result, op>>
pollVars == <<pollingInterval, currentPollingInstrument, intervals>>
\* the chart view apart from the displayed series
viewRest == <<isOpen, instrumentKeyRef, searching, strategySearching, selected>>
\* what the end of a load writes
displayVars == <<chartData, isLoadingChart, chartError>>
viewVars == <<displayVars, viewRest>>
vars == <<envVars, wsVars, wssVars, fetchVars, pollVars, viewVars, pureVars>>
\* what the chart stream manager and the handlers it calls never touch
wsRest == <<envVars, wssVars, candleCache, displayVars, viewRest, pureVars>>
\* what websocketService never touches
wssRest == <<envVars, wsVars, fetchVars, pollVars, viewVars, pureVars>>
\* what the fetcher and the continuations awaiting it never touch
fetchRest == <<advances, token, demoMode, wsVars, wssVars, pollVars, viewRest, pureVars>>

Min(a, b) == IF a < b THEN a ELSE b

\* ------------------------------------------------------------ market hours
getDay(t) == ((t \div MsPerDay) + 1) % 7            \* 0 = Sunday, t = 0 is a Monday
getHours(t) == (t % MsPerDay) \div (60 * MsPerMinute)
getMinutes(t) == ((t % MsPerDay) \div MsPerMinute) % 60

isMarketOpen(t) ==
    LET day == getDay(t)
        timeInMinutes == getHours(t) * 60 + getMinutes(t)
        marketOpen == 9 * 60 + 15
        marketClose == 15 * 60 + 30
    IN IF day = 0 \/ day = 6 THEN FALSE
       ELSE timeInMinutes >= marketOpen /\ timeInMinutes <= marketClose

\* chartDataService.isWithinMarketHours with the close at 15:30:59, as in
\* apiConfig.isMarketOpen
isWithinMarketHours_InclusiveClose(t) == isMarketOpen(t)

\* chartDataService.isWithinMarketHours at instant t
isWithinMarketHours(t) ==
    LET dayOfWeek == getDay(t)
        hours == getHours(t)
        minutes == getMinutes(t)
    IN IF dayOfWeek = 0 \/ dayOfWeek = 6 THEN FALSE
       ELSE IF hours < 9 \/ (hours = 9 /\ minutes < 15) THEN FALSE
       ELSE IF hours > 15 \/ (hours = 15 /\ minutes >= 30) THEN FALSE
       ELSE TRUE

\* istTime.setDate(istTime.getDate() - days): the same time of day, days earlier
setDateBack(t, days) == t - days * MsPerDay

\* getLastMarketDay that goes back one day before every open
getLastMarketDay_AlwaysOneDay(t) ==
    LET dayOfWeek == getDay(t)
        hours == getHours(t)
        minutes == getMinutes(t)
    IN IF dayOfWeek = 0 THEN setDateBack(t, 2)
       ELSE IF dayOfWeek = 6 THEN setDateBack(t, 1)
       ELSE IF hours < 9 \/ (hours = 9 /\ minutes < 15) THEN setDateBack(t, 1)
       ELSE t

\* chartDataService.getLastMarketDay at instant t: the instant the returned
\* Date denotes
getLastMarketDay(t) ==
    LET dayOfWeek == getDay(t)
        hours == getHours(t)
        minutes == getMinutes(t)
    IN IF dayOfWeek = 0 THEN setDateBack(t, 2)
       ELSE IF dayOfWeek = 6 THEN setDateBack(t, 1)
       ELSE IF hours < 9 \/ (hours = 9 /\ minutes < 15)
       THEN IF dayOfWeek = 1 THEN setDateBack(t, 3) ELSE setDateBack(t, 1)
       ELSE t

\* ------------------------------------------------- browser WebSocket object
\* the callbacks (onTick, onConnectionChange) the event handlers of a socket
\* close over: callbacks that touch nothing modelled, or handleTick and
\* handleConnectionChange of AssetDetails with the resolution they captured
NoHandlers == [component |-> "none", interval |-> "none"]
ViewHandlers(interval) == [component |-> "AssetDetails", interval |-> interval]

FreeSocket == [readyState |-> "FREE", keys |-> {}, subscribed |-> {}, failing |-> FALSE,
               handlers |-> NoHandlers]
NewSocket(keys) == [readyState |-> "CONNECTING", keys |-> keys, subscribed |-> {},
                    failing |-> FALSE, handlers |-> NoHandlers]
FreeTimer == [pending |-> FALSE, keys |-> {}, handlers |-> NoHandlers]

Live(sk) == {s \in DOMAIN sk : sk[s].readyState \in {"CONNECTING", "OPEN"}}
FreeSlot(sk) == CHOOSE s \in DOMAIN sk :
                    /\ sk[s].readyState = "FREE"
                    /\ \A r \in DOMAIN sk : sk[r].readyState = "FREE" => s <= r
HasFreeSlot(sk) == \E s \in DOMAIN sk : sk[s].readyState = "FREE"

\* WebSocket.close(): CONNECTING fails the connection (error + close events
\* follow), OPEN starts the closing handshake, CLOSING / CLOSED are no-ops.
close(sock) ==
    IF sock.readyState = "CONNECTING"
    THEN [sock EXCEPT !.readyState = "CLOSING", !.failing = TRUE]
    ELSE IF sock.readyState = "OPEN"
    THEN [sock EXCEPT !.readyState = "CLOSING"]
    ELSE sock

\* ------------------------------------------------ chartDataService: candles
isNaN(x) == x = NaN

\* Number(x) for a field that holds a number or is absent
Number(x) == IF x = Undefined THEN NaN ELSE x

\* the response-to-CandleData conversion of getCandleHistory / getCandleIntraday;
\* the records of a response have no ts and no vol field, so "c.timestamp || c.ts"
\* is undefined when c.timestamp is 0, NaN or absent, and "c.volume || c.vol || 0"
\* is 0 when c.volume is 0, NaN or absent; new Date(t).getTime() is NaN for an
\* undefined or infinite t
formatCandle(c) ==
    LET timestamp == IF c.timestamp = 0 \/ isNaN(c.timestamp) \/ c.timestamp = Undefined
                     THEN Undefined
                     ELSE c.timestamp
        unixTime == IF timestamp \in {Undefined, Infinity, -Infinity} THEN NaN
                    ELSE timestamp \div 1000
    IN
    [time |-> unixTime,
     ts |-> timestamp,
     open |-> Number(c.open), high |-> Number(c.high), low |-> Number(c.low),
     close |-> Number(c.close),
     volume |-> IF c.volume = 0 \/ isNaN(c.volume) \/ c.volume = Undefined THEN 0
                ELSE c.volume]

formatCandles(candles) == [i \in 1..Len(candles) |-> formatCandle(candles[i])]

\* the filter predicate of validateCandles
validCandle(c) ==
    LET isValid == /\ ~isNaN(c.open) /\ c.open > 0
                   /\ ~isNaN(c.high) /\ c.high > 0
                   /\ ~isNaN(c.low) /\ c.low > 0
                   /\ ~isNaN(c.close) /\ c.close > 0
                   /\ ~isNaN(c.volume) /\ c.volume >= 0
    IN IF ~isValid THEN FALSE
       ELSE IF c.high < c.low THEN FALSE
       ELSE IF c.high < c.open \/ c.high < c.close \/ c.low > c.open \/ c.low > c.close
       THEN FALSE
       ELSE TRUE

validateCandles(candles) == SelectSeq(candles, validCandle)

RECURSIVE dedupFrom(_, _, _)
dedupFrom(candles, i, seen) ==
    IF i > Len(candles) THEN <<>>
    ELSE IF candles[i].time \in seen
    THEN dedupFrom(candles, i + 1, seen)
    ELSE <<candles[i]>> \o dedupFrom(candles, i + 1, seen \cup {candles[i].time})

deduplicateCandles(candles) == dedupFrom(candles, 1, {})

\* the comparator (a, b) => a.time - b.time as the sort sees it: a NaN
\* difference counts as 0
byTime(a, b) ==
    IF isNaN(a.time) \/ isNaN(b.time) THEN 0
    ELSE IF a.time = b.time THEN 0
    ELSE a.time - b.time

\* the end of the run that starts the array: non-descending, or strictly
\* descending when desc
RECURSIVE runEnd(_, _, _)
runEnd(a, idx, desc) ==
    IF idx > Len(a) THEN idx - 1
    ELSE LET order == byTime(a[idx], a[idx - 1])
         IN IF (desc /\ order >= 0) \/ (~desc /\ order < 0)
            THEN idx - 1
            ELSE runEnd(a, idx + 1, desc)

Reverse(a) == [i \in 1..Len(a) |-> a[Len(a) + 1 - i]]

\* where the binary search puts pivot among the first `right` elements:
\* the number of elements that stay before it
RECURSIVE insertionPoint(_, _, _, _)
insertionPoint(a, pivot, left, right) ==
    IF left >= right THEN left
    ELSE LET mid == left + ((right - left) \div 2)
         IN IF byTime(pivot, a[mid + 1]) < 0
            THEN insertionPoint(a, pivot, left, mid)
            ELSE insertionPoint(a, pivot, mid + 1, right)

\* binary insertion of the elements after the first `start`
RECURSIVE insertFrom(_, _)
insertFrom(a, start) ==
    IF start >= Len(a) THEN a
    ELSE LET pivot == a[start + 1]
             pos == insertionPoint(a, pivot, 0, start)
         IN insertFrom(SubSeq(a, 1, pos) \o <<pivot>> \o SubSeq(a, pos + 1, start)
                           \o SubSeq(a, start + 2, Len(a)),
                       start + 1)

\* a "sort" that only turns the list around
sortCandles_Reversed(candles) == Reverse(candles)

\* [...candles].sort((a, b) => a.time - b.time). For times that are numbers
\* this is the stable ascending sort. With a NaN time the comparator is not
\* consistent and the order is the engine's: this is the order of V8 (Chrome,
\* Node) for arrays of fewer than 64 elements, a run followed by binary
\* insertion.
sortCandles(candles) ==
    IF Len(candles) < 2 THEN candles
    ELSE LET desc == byTime(candles[2], candles[1]) < 0
             len == runEnd(candles, 3, desc)
             run == IF desc
                    THEN Reverse(SubSeq(candles, 1, len)) \o
                         SubSeq(candles, len + 1, Len(candles))
                    ELSE candles
         IN insertFrom(run, len)

cleanChartData(candles) ==
    IF Len(candles) = 0 THEN <<>>
    ELSE sortCandles(deduplicateCandles(validateCandles(candles)))

\* `${instrumentKey}|${timeframe}|${interval}`
getCacheKey(instrumentKey, timeframe, interval) ==
    instrumentKey \o "|" \o timeframe \o "|" \o interval

\* by: "latest" when the writer was the last request initiated for the key,
\* "superseded" when a later request for the key had already been initiated
NoEntry == [data |-> <<>>, timestamp |-> NaN, by |-> "nobody"]

\* nothing was returned at this instant; the other kinds are "hit" and "issued"
\* (a getCandle* call returned a cached series / awaits fetch), "ok", "failed"
\* and "aborted" (the branch a continuation returned from) and "stopped" (a poll
\* tick found the market closed)
NoCall == [kind |-> "none", data |-> <<>>]

\* getCachedData that never lets an entry expire
getCachedData_NoExpiry(cache, key, t) ==
    IF cache[key] = NoEntry
    THEN [hit |-> FALSE, data |-> <<>>, cache |-> cache]
    ELSE [hit |-> TRUE, data |-> cache[key].data, cache |-> cache]

\* getCachedData at time t: whether it returns a series, the series, the cache after
getCachedData(cache, key, t) ==
    IF cache[key] = NoEntry
    THEN [hit |-> FALSE, data |-> <<>>, cache |-> cache]
    ELSE LET age == t - cache[key].timestamp
         IN IF age > CACHE_TTL
            THEN [hit |-> FALSE, data |-> <<>>, cache |-> [cache EXCEPT ![key] = NoEntry]]
            ELSE [hit |-> TRUE, data |-> cache[key].data, cache |-> cache]

\* setCachedData, by request r
setCachedData(cache, key, data, t, r) ==
    [cache EXCEPT ![key] =
        [data |-> data, timestamp |-> t,
         by |-> IF requests[r].superseded THEN "superseded" ELSE "latest"]]

\* a fetch() call and the continuation awaiting it; awaiter is the code that
\* awaits the promise of the getCandle* call ("consumer", "poll" or
\* "loadChartData"); superseded and evicted are history: a later request for
\* the same cache key has been initiated, and the call that issued the request
\* removed the cache entry it found for its key
FreeRequest == [state |-> "free", caller |-> "none", awaiter |-> "none",
                timeframe |-> "none", endpoint |-> "none", key |-> "", limit |-> 0,
                superseded |-> FALSE, evicted |-> FALSE]

InFlight(rq) == {r \in DOMAIN rq : rq[r].state \in {"pending", "aborted"}}

\* an aborted fetch() has rejected and its catch block has not run yet: the
\* continuation is a microtask, it runs before any other task
MicrotaskQueued == \E r \in DOMAIN requests : requests[r].state = "aborted"

\* AbortController.abort() of request r
abort(rq, r) ==
    IF rq[r].state = "pending" THEN [rq EXCEPT ![r].state = "aborted"] ELSE rq

\* getCandleHistory (lines 405-413) and getCandleIntraday (lines 500-508) after
\* a cache miss: abort the request registered for the key, register a new
\* controller, call fetch().  f holds the fields activeRequests, requests and
\* ok; ok becomes FALSE when the model has no request object left.
beginFetch(f, caller, awaiter, timeframe, endpoint, cacheKey, limit, evicted) ==
    LET existingController == f.activeRequests[cacheKey]
        aborted == IF existingController # NULL
                   THEN abort(f.requests, existingController)
                   ELSE f.requests
        older == [r \in DOMAIN aborted |->
                     IF aborted[r].state # "free" /\ aborted[r].key = cacheKey
                     THEN [aborted[r] EXCEPT !.superseded = TRUE]
                     ELSE aborted[r]]
        controller == FreeSlot([r \in DOMAIN f.requests |->
                                   [readyState |-> IF f.requests[r].state = "free"
                                                   THEN "FREE" ELSE "USED"]])
    IN IF \A r \in DOMAIN f.requests : f.requests[r].state # "free"
       THEN [f EXCEPT !.ok = FALSE]
       ELSE [f EXCEPT
               !.requests = [older EXCEPT ![controller] =
                   [state |-> "pending", caller |-> caller, awaiter |-> awaiter,
                    timeframe |-> timeframe, endpoint |-> endpoint, key |-> cacheKey,
                    limit |-> limit, superseded |-> FALSE, evicted |-> evicted]],
               !.activeRequests = [f.activeRequests EXCEPT ![cacheKey] = controller]]

\* getCandleHistory (lines 397-438) and getCandleIntraday (lines 492-530) from
\* the cache check to the await of fetch(); caller is the exported function
\* that was called, timeframe the one it was asked for
startRequest(caller, awaiter, timeframe, endpoint, cacheKey, limit, forceRefresh) ==
    LET cached == IF forceRefresh
                  THEN [hit |-> FALSE, data |-> <<>>, cache |-> candleCache]
                  ELSE getCachedData(candleCache, cacheKey, now)
        f == beginFetch([activeRequests |-> activeRequests, requests |-> requests,
                         ok |-> TRUE],
                        caller, awaiter, timeframe, endpoint, cacheKey, limit,
                        cached.cache[cacheKey] # candleCache[cacheKey])
    IN IF cached.hit
       THEN /\ lastCall' = [kind |-> "hit", data |-> cached.data]
            /\ candleCache' = cached.cache
            /\ UNCHANGED <<activeRequests, requests>>
       ELSE /\ f.ok
            /\ candleCache' = cached.cache
            /\ requests' = f.requests
            /\ activeRequests' = f.activeRequests
            /\ lastCall' = [kind |-> "issued", data |-> <<>>]

\* getCandleIntraday(instrumentKey, interval, forceRefresh, customLimit)
getCandleIntradayBody(caller, awaiter, timeframe, instrumentKey, interval, forceRefresh, customLimit) ==
    startRequest(caller, awaiter, timeframe, "intraday",
                 getCacheKey(instrumentKey, "1D", interval), customLimit, forceRefresh)

calculateLimit(timeframe, interval) ==
    CASE timeframe = "1D" -> 500
      [] timeframe = "1W" -> 1500
      [] timeframe = "1M" -> 6000
      [] timeframe = "2M" -> 6000
      [] timeframe = "3M" -> 18000
      [] timeframe = "1Y" -> (IF interval = "1d" THEN 365 ELSE 18000)
      [] OTHER -> 500

\* getCandleHistory without the '1D' redirect
getCandleHistoryBody_NoRedirect(awaiter, instrumentKey, timeframe, interval, forceRefresh) ==
    startRequest("getCandleHistory", awaiter, timeframe, "history",
                 getCacheKey(instrumentKey, timeframe, interval),
                 calculateLimit(timeframe, interval), forceRefresh)

\* getCandleHistory(instrumentKey, timeframe, interval, forceRefresh)
getCandleHistoryBody(awaiter, instrumentKey, timeframe, interval, forceRefresh) ==
    IF timeframe = "1D"
    THEN getCandleIntradayBody("getCandleHistory", awaiter, timeframe, instrumentKey,
                               interval, forceRefresh, 200)
    ELSE startRequest("getCandleHistory", awaiter, timeframe, "history",
                      getCacheKey(instrumentKey, timeframe, interval),
                      calculateLimit(timeframe, interval), forceRefresh)

\* a consumer calls getCandleHistory
getCandleHistory(instrumentKey, timeframe, interval, forceRefresh) ==
    /\ ~MicrotaskQueued
    /\ getCandleHistoryBody("consumer", instrumentKey, timeframe, interval, forceRefresh)
    /\ UNCHANGED <<now, displayVars, fetchRest>>

\* a consumer calls getCandleIntraday, customLimit left at its default
getCandleIntraday(instrumentKey, interval, forceRefresh) ==
    /\ ~MicrotaskQueued
    /\ getCandleIntradayBody("getCandleIntraday", "consumer", "1D", instrumentKey,
                             interval, forceRefresh, 500)
    /\ UNCHANGED <<now, displayVars, fetchRest>>

\* what the code awaiting a getCandle* call does with the series it returns:
\* poll hands it to onUpdate, which is AssetDetails' callback
\* (AssetDetails.tsx 158-164), loadChartData runs lines 88-107; both add the
\* two display strings to every candle and pass the series to setChartData
resume(awaiter, data) ==
    IF awaiter = "loadChartData"
    THEN /\ chartData' = data
         /\ chartError' = (Len(data) = 0)
         /\ isLoadingChart' = FALSE
    ELSE IF awaiter = "poll"
    THEN /\ chartData' = data
         /\ UNCHANGED <<isLoadingChart, chartError>>
    ELSE UNCHANGED displayVars

\* the continuation of request r ends: activeRequests.delete(cacheKey), return data,
\* and the awaiting code resumes; outcome names the branch that returned: "ok",
\* "failed" or "aborted"
settle(r, outcome, data) ==
    /\ activeRequests' = [activeRequests EXCEPT ![requests[r].key] = NULL]
    /\ requests' = [requests EXCEPT ![r] = FreeRequest]
    /\ lastCall' = [kind |-> outcome, data |-> data]
    /\ resume(requests[r].awaiter, data)
    /\ UNCHANGED <<now, fetchRest>>

\* the response of request r arrives with res.ok and the body `candles`
FetchOk(r, candles) ==
    /\ ~MicrotaskQueued
    /\ requests[r].state = "pending"
    /\ candleCache' = setCachedData(candleCache, requests[r].key,
                                    cleanChartData(formatCandles(candles)), now, r)
    /\ settle(r, "ok", cleanChartData(formatCandles(candles)))

\* a failure branch that stores the empty series it returns
FetchFail_CachesEmpty(r) ==
    /\ ~MicrotaskQueued
    /\ requests[r].state = "pending"
    /\ candleCache' = setCachedData(candleCache, requests[r].key, <<>>, now, r)
    /\ settle(r, "failed", <<>>)

\* the response of request r arrives with a non-success status, or fetch() /
\* res.json() rejects with a network error
FetchFail(r) ==
    /\ ~MicrotaskQueued
    /\ requests[r].state = "pending"
    /\ UNCHANGED candleCache
    /\ settle(r, "failed", <<>>)

\* the catch block of an aborted request r runs (e.name = 'AbortError')
AbortCatch(r) ==
    /\ requests[r].state = "aborted"
    /\ UNCHANGED candleCache
    /\ settle(r, "aborted", <<>>)

\* ------------------------------------------ chartDataService: polling fallback
\* null in a variable that holds an instrument key
NoInstrument == "null"

\* a setInterval timer: the arguments its poll closure holds
FreeInterval == [active |-> FALSE, instrumentKey |-> NoInstrument, interval |-> "none"]

\* the module state the polling fallback and the fetches it issues work on;
\* ok becomes FALSE when the model has no request or timer object left
Poller ==
    [pollingInterval |-> pollingInterval,
     currentPollingInstrument |-> currentPollingInstrument,
     intervals |-> intervals, activeRequests |-> activeRequests,
     requests |-> requests, lastCall |-> lastCall, chartData |-> chartData,
     isLoadingChart |-> isLoadingChart, chartError |-> chartError, ok |-> TRUE]

\* the module state becomes p
Becomes(p) ==
    /\ p.ok
    /\ pollingInterval' = p.pollingInterval
    /\ currentPollingInstrument' = p.currentPollingInstrument
    /\ intervals' = p.intervals
    /\ activeRequests' = p.activeRequests
    /\ requests' = p.requests
    /\ lastCall' = p.lastCall

\* what the polling fallback and the fetches it issues never touch
pollRest == <<envVars, wsVars, wssVars, candleCache, viewVars, pureVars>>

\* stopPollingFallback
stopPollingFallback(p) ==
    IF p.pollingInterval # NULL
    THEN [p EXCEPT !.intervals[p.pollingInterval] = FreeInterval,
                   !.pollingInterval = NULL,
                   !.currentPollingInstrument = NoInstrument]
    ELSE p

\* poll that does not look at the market hours
poll_NoMarketCheck(p, t, instrumentKey, interval) ==
    [beginFetch(p, "getCandleIntraday", "poll", "1D", "intraday",
                getCacheKey(instrumentKey, "1D", interval), 500, FALSE)
       EXCEPT !.lastCall = [kind |-> "issued", data |-> <<>>]]

\* poll (lines 698-707) at time t, up to the await of
\* getCandleIntraday(instrumentKey, interval, true); lastCall records which
\* way it went
poll(p, t, instrumentKey, interval) ==
    IF ~isWithinMarketHours(t)
    THEN [stopPollingFallback(p) EXCEPT !.lastCall = [kind |-> "stopped", data |-> <<>>]]
    ELSE [beginFetch(p, "getCandleIntraday", "poll", "1D", "intraday",
                     getCacheKey(instrumentKey, "1D", interval), 500, FALSE)
            EXCEPT !.lastCall = [kind |-> "issued", data |-> <<>>]]

\* startPollingFallback(instrumentKey, interval, onUpdate) at time t; onUpdate
\* is the callback of AssetDetails, see resume
startPollingFallback(p, t, instrumentKey, interval) ==
    LET stopped == IF p.pollingInterval # NULL THEN stopPollingFallback(p) ELSE p
        named == [stopped EXCEPT !.currentPollingInstrument = instrumentKey]
        polled == poll(named, t, instrumentKey, interval)
        id == FreeSlot([i \in DOMAIN polled.intervals |->
                           [readyState |-> IF polled.intervals[i].active
                                           THEN "USED" ELSE "FREE"]])
    IN IF ~isWithinMarketHours(t)
       THEN stopped
       ELSE IF \A i \in DOMAIN polled.intervals : polled.intervals[i].active
       THEN [polled EXCEPT !.ok = FALSE]
       ELSE [polled EXCEPT !.intervals[id] = [active |-> TRUE,
                                              instrumentKey |-> instrumentKey,
                                              interval |-> interval],
                           !.pollingInterval = id]

\* a consumer calls startPollingFallback
StartPollingFallback(instrumentKey, interval) ==
    /\ ~MicrotaskQueued
    /\ Becomes(startPollingFallback(Poller, now, instrumentKey, interval))
    /\ UNCHANGED pollRest

\* a consumer calls stopPollingFallback
StopPollingFallback ==
    /\ ~MicrotaskQueued
    /\ Becomes(stopPollingFallback(Poller))
    /\ UNCHANGED pollRest

\* the setInterval timer i fires: poll runs
PollTick(i) ==
    /\ ~MicrotaskQueued
    /\ intervals[i].active
    /\ Becomes(poll(Poller, now, intervals[i].instrumentKey, intervals[i].interval))
    /\ UNCHANGED pollRest

\* ------------------------------------ AssetDetails: the stream callbacks
\* handleConnectionChange(status) at time t (lines 148-168); interval is the
\* resolution the callback captured
handleConnectionChange(p, t, status, interval) ==
    IF status = "error" \/ status = "disconnected"
    THEN startPollingFallback(p, t, instrumentKeyRef, interval)
    ELSE p

\* the microtask checkpoint between two callbacks of one task: the catch block
\* of every aborted request runs (activeRequests.delete(cacheKey), return []),
\* and poll or loadChartData, resumed with the empty series, displays it
checkpoint(p) ==
    LET aborted == {r \in DOMAIN p.requests : p.requests[r].state = "aborted"}
    IN IF aborted = {} THEN p
       ELSE [p EXCEPT
               !.activeRequests =
                   [k \in DOMAIN p.activeRequests |->
                       IF \E r \in aborted : p.requests[r].key = k
                       THEN NULL ELSE p.activeRequests[k]],
               !.requests = [r \in DOMAIN p.requests |->
                                IF r \in aborted THEN FreeRequest ELSE p.requests[r]],
               !.lastCall = [kind |-> "aborted", data |-> <<>>],
               !.chartData =
                   IF \E r \in aborted :
                          p.requests[r].awaiter \in {"poll", "loadChartData"}
                   THEN <<>> ELSE p.chartData,
               !.chartError =
                   IF \E r \in aborted : p.requests[r].awaiter = "loadChartData"
                   THEN TRUE ELSE p.chartError,
               !.isLoadingChart =
                   IF \E r \in aborted : p.requests[r].awaiter = "loadChartData"
                   THEN FALSE ELSE p.isLoadingChart]

\* handleConnectionChange called with each of the statuses in turn: onerror
\* reports "error", onclose reports "disconnected", and the microtasks queued
\* by one callback run before the next callback
RECURSIVE reported(_, _, _, _)
reported(p, t, statuses, interval) ==
    IF statuses = <<>> THEN p
    ELSE LET q == handleConnectionChange(p, t, Head(statuses), interval)
         IN IF Tail(statuses) = <<>> THEN q
            ELSE reported(checkpoint(q), t, Tail(statuses), interval)

\* the statuses reported by this task reach the onConnectionChange callback
onConnectionChange(handlers) ==
    IF handlers.component = "AssetDetails"
    THEN Becomes(reported(Poller, now, emitted', handlers.interval))
    ELSE UNCHANGED <<pollVars, activeRequests, requests, lastCall>>

\* ------------------------------------------- chartDataService: live stream
\* subscribeToInstruments: the socket array after the call
subscribeToInstruments(sk, conn, instrumentKeys) ==
    IF conn = NULL \/ sk[conn].readyState # "OPEN"
    THEN sk
    ELSE [sk EXCEPT ![conn].subscribed = @ \cup instrumentKeys]

\* connectMarketWebSocket without the getToken() guard
connectMarketWebSocket_NoTokenGuard(instrumentKeys, handlers) ==
    IF wsConnection # NULL
    THEN /\ sockets' = subscribeToInstruments(sockets, wsConnection, instrumentKeys)
         /\ emitted' = <<>>
         /\ UNCHANGED wsConnection
    ELSE /\ HasFreeSlot(sockets)
         /\ wsConnection' = FreeSlot(sockets)
         /\ sockets' = [sockets EXCEPT ![FreeSlot(sockets)] =
                            [NewSocket(instrumentKeys) EXCEPT !.handlers = handlers]]
         /\ emitted' = <<>>

\* body of connectMarketWebSocket(instrumentKeys, onTick, onConnectionChange),
\* shared by consumers and the reconnect timer; handlers stands for the two
\* callbacks, the statuses of emitted' are what onConnectionChange is called with
connectMarketWebSocket(instrumentKeys, handlers) ==
    IF wsConnection # NULL
    THEN /\ sockets' = subscribeToInstruments(sockets, wsConnection, instrumentKeys)
         /\ emitted' = <<>>
         /\ UNCHANGED wsConnection
    ELSE IF ~token
    THEN /\ emitted' = <<"error">>
         /\ UNCHANGED <<wsConnection, sockets>>
    ELSE /\ HasFreeSlot(sockets)
         /\ wsConnection' = FreeSlot(sockets)
         /\ sockets' = [sockets EXCEPT ![FreeSlot(sockets)] =
                            [NewSocket(instrumentKeys) EXCEPT !.handlers = handlers]]
         /\ emitted' = <<>>

\* a call of connectMarketWebSocket by a consumer, with what its
\* onConnectionChange callback does when called
connectCall(instrumentKeys, handlers) ==
    /\ connectMarketWebSocket(instrumentKeys, handlers)
    /\ onConnectionChange(handlers)
    /\ deliberate' = FALSE
    /\ requestedKeys' = IF wsConnection = NULL /\ ~token
                        THEN requestedKeys        \* the call was refused
                        ELSE requestedKeys \cup instrumentKeys
    /\ UNCHANGED <<wsReconnectAttempts, wsReconnectTimer, timers, runDelays>>

\* a consumer calls connectMarketWebSocket(instrumentKeys, onTick, onConnectionChange)
ConsumerConnect(instrumentKeys) ==
    /\ ~MicrotaskQueued
    /\ connectCall(instrumentKeys, NoHandlers)
    /\ UNCHANGED wsRest

\* the setTimeout callback of onclose runs
ReconnectTimerFire(t) ==
    /\ ~MicrotaskQueued
    /\ timers[t].pending
    /\ timers' = [timers EXCEPT ![t] = FreeTimer]
    /\ connectMarketWebSocket(timers[t].keys, timers[t].handlers)
    /\ onConnectionChange(timers[t].handlers)
    /\ UNCHANGED <<wsReconnectAttempts, wsReconnectTimer, deliberate, requestedKeys,
                   runDelays, wsRest>>

\* wsConnection.onopen of socket s
SocketOpen(s) ==
    /\ ~MicrotaskQueued
    /\ sockets[s].readyState = "CONNECTING"
    /\ wsReconnectAttempts' = 0
    /\ emitted' = <<"connected">>
    /\ onConnectionChange(sockets[s].handlers)
    /\ sockets' = subscribeToInstruments([sockets EXCEPT ![s].readyState = "OPEN"],
                                         wsConnection, sockets[s].keys)
    /\ runDelays' = <<>>
    /\ UNCHANGED <<wsConnection, wsReconnectTimer, timers, deliberate, requestedKeys,
                   wsRest>>

\* the reconnect condition with <= in place of <
shouldReconnect_OffByOne(t, attempts) ==
    isMarketOpen(t) /\ attempts <= MAX_RECONNECT_ATTEMPTS

\* onclose: "isMarketOpen() && wsReconnectAttempts < MAX_RECONNECT_ATTEMPTS"
shouldReconnect(t, attempts) ==
    isMarketOpen(t) /\ attempts < MAX_RECONNECT_ATTEMPTS

\* onclose: "Math.min(1000 * Math.pow(2, wsReconnectAttempts), 30000)"
backoffDelay(attempts) == Min(1000 * 2 ^ attempts, 30000)

\* wsConnection.onclose of socket s; pre = statuses already reported by the same event-loop turn
onclose(s, pre) ==
    /\ ~MicrotaskQueued
    /\ wsConnection' = NULL
    /\ emitted' = Append(pre, "disconnected")
    /\ onConnectionChange(sockets[s].handlers)
    /\ LET p == IF sockets[s].handlers.component = "AssetDetails"
                THEN reported(Poller, now, emitted', sockets[s].handlers.interval)
                ELSE Poller
       IN /\ chartData' = p.chartData
          /\ isLoadingChart' = p.isLoadingChart
          /\ chartError' = p.chartError
    /\ sockets' = [sockets EXCEPT ![s] = FreeSocket]
    /\ IF shouldReconnect(now, wsReconnectAttempts)
       THEN LET delay == backoffDelay(wsReconnectAttempts)
                t == FreeSlot([i \in DOMAIN timers |->
                         [readyState |-> IF timers[i].pending THEN "USED" ELSE "FREE"]])
            IN /\ \E i \in DOMAIN timers : ~timers[i].pending
               /\ wsReconnectAttempts' = wsReconnectAttempts + 1
               /\ timers' = [timers EXCEPT ![t] =
                                [pending |-> TRUE, keys |-> sockets[s].keys,
                                 handlers |-> sockets[s].handlers]]
               /\ wsReconnectTimer' = t
               /\ runDelays' = Append(runDelays, delay)
       ELSE UNCHANGED <<wsReconnectAttempts, timers, wsReconnectTimer, runDelays>>
    /\ UNCHANGED <<deliberate, requestedKeys, envVars, wssVars, candleCache, viewRest,
                   pureVars>>

\* the connection of socket s ends without a failure: close event only
SocketClose(s) ==
    /\ \/ sockets[s].readyState = "OPEN"
       \/ sockets[s].readyState = "CLOSING" /\ ~sockets[s].failing
    /\ onclose(s, <<>>)

\* the connection of socket s fails: error event, then close event, in one
\* task, with a microtask checkpoint between the two callbacks
SocketFail(s) ==
    /\ sockets[s].readyState \in {"CONNECTING", "OPEN", "CLOSING"}
    /\ onclose(s, <<"error">>)

disconnectMarketWebSocketBody ==
    /\ timers' = IF wsReconnectTimer # NULL /\ timers[wsReconnectTimer].pending
                 THEN [timers EXCEPT ![wsReconnectTimer] = FreeTimer]
                 ELSE timers
    /\ wsReconnectTimer' = NULL
    /\ sockets' = IF wsConnection # NULL
                  THEN [sockets EXCEPT ![wsConnection] = close(@)]
                  ELSE sockets
    /\ wsConnection' = NULL
    /\ wsReconnectAttempts' = 0
    /\ emitted' = <<>>
    /\ deliberate' = TRUE
    /\ requestedKeys' = {}
    /\ runDelays' = <<>>

\* a consumer calls disconnectMarketWebSocket
disconnectMarketWebSocket ==
    /\ ~MicrotaskQueued
    /\ disconnectMarketWebSocketBody
    /\ UNCHANGED <<pollVars, activeRequests, requests, lastCall, wsRest>>

\* -------------------------------------------------- AssetDetails: the view
\* the instrument searchInstruments resolves the asset of the view to
ChartInstrument == "NSE_EQ|A"

\* handleTick(event) applied to the displayed series prev (lines 130-146)
handleTick(prev, event) ==
    IF Len(prev) = 0 THEN prev
    ELSE LET lastCandle == prev[Len(prev)]
             withClose == IF event.ltp # Undefined
                          THEN [lastCandle EXCEPT !.close = event.ltp] ELSE lastCandle
             withHigh == IF event.high # Undefined
                         THEN [withClose EXCEPT !.high = event.high] ELSE withClose
             withLow == IF event.low # Undefined
                        THEN [withHigh EXCEPT !.low = event.low] ELSE withHigh
             withVolume == IF event.vol # Undefined
                           THEN [withLow EXCEPT !.volume = event.vol] ELSE withLow
         IN [prev EXCEPT ![Len(prev)] = withVolume]

\* wsConnection.onmessage of socket s with a tick event: the browser delivers
\* messages to an OPEN socket only
SocketMessage(s, event) ==
    /\ ~MicrotaskQueued
    /\ sockets[s].readyState = "OPEN"
    /\ chartData' = IF sockets[s].handlers.component = "AssetDetails"
                    THEN handleTick(chartData, event)
                    ELSE chartData
    /\ UNCHANGED <<envVars, wsVars, wssVars, fetchVars, pollVars, isLoadingChart,
                   chartError, viewRest, pureVars>>

\* the timeframes and resolutions the view can have selected
Selections == [timeframe : Timeframes, interval : Intervals \cup {"5m"}]

\* what a loadChartData call holds while it awaits searchInstruments
Loads == [timeframe : Timeframes, interval : Intervals \cup {"5m"},
          forceRefresh : BOOLEAN]

LoadOf(sel, forceRefresh) ==
    [timeframe |-> sel.timeframe, interval |-> sel.interval,
     forceRefresh |-> forceRefresh]

NoSearch == [load \in Loads |-> 0]

\* the number of loadChartData calls awaiting searchInstruments
RECURSIVE SearchesOf(_, _)
SearchesOf(srch, loads) ==
    IF loads = {} THEN 0
    ELSE LET load == CHOOSE x \in loads : TRUE
         IN srch[load] + SearchesOf(srch, loads \ {load})

Searches(srch) == SearchesOf(srch, Loads)

\* loadChartData(forceRefresh) up to its await of searchInstruments (lines 54-63),
\* called by a view that has sel selected
loadChartData(sel, forceRefresh) ==
    /\ Searches(searching) < MaxSearches
    /\ searching' = [searching EXCEPT ![LoadOf(sel, forceRefresh)] = @ + 1]
    /\ isLoadingChart' = TRUE
    /\ chartError' = FALSE
    /\ UNCHANGED chartData

\* fetchStrategy up to its await of searchInstruments (lines 194-209): it
\* searches only when instrumentKeyRef.current is null
fetchStrategy ==
    IF instrumentKeyRef = NoInstrument
    THEN /\ strategySearching < MaxSearches
         /\ strategySearching' = strategySearching + 1
    ELSE UNCHANGED strategySearching

\* cleanupChartDataService (chartDataService.ts lines 727-736): the stream is
\* disconnected, the poller stopped, every registered controller aborted and
\* the registry cleared; no component calls it
cleanupChartDataService ==
    /\ ~MicrotaskQueued
    /\ disconnectMarketWebSocketBody
    /\ LET p == stopPollingFallback(Poller)
           registered == {p.activeRequests[k] : k \in DOMAIN p.activeRequests} \ {NULL}
       IN Becomes([p EXCEPT
                     !.requests = [r \in DOMAIN p.requests |->
                                      IF r \in registered THEN abort(p.requests, r)[r]
                                      ELSE p.requests[r]],
                     !.activeRequests = [k \in DOMAIN p.activeRequests |-> NULL]])
    /\ UNCHANGED <<envVars, wssVars, candleCache, viewVars, pureVars>>

\* the cleanup of the realtime effect (lines 187-190)
cleanup ==
    /\ disconnectMarketWebSocketBody
    /\ Becomes(stopPollingFallback(Poller))

\* the realtime effect runs again with the timeframe '1D' (lines 182-191): the
\* cleanup its last run returned, then initializeRealtimeData (lines 119-171)
\* with the resolution interval
reattach(interval) ==
    IF instrumentKeyRef = NoInstrument \/ ~isWithinMarketHours(now)
    THEN cleanup
    ELSE LET closed == IF wsConnection # NULL
                       THEN [sockets EXCEPT ![wsConnection] = close(@)]
                       ELSE sockets
         IN /\ timers' = IF wsReconnectTimer # NULL /\ timers[wsReconnectTimer].pending
                          THEN [timers EXCEPT ![wsReconnectTimer] = FreeTimer]
                          ELSE timers
            /\ wsReconnectTimer' = NULL
            /\ wsReconnectAttempts' = 0
            /\ runDelays' = <<>>
            /\ deliberate' = FALSE
            /\ IF ~token
               THEN /\ emitted' = <<"error">>
                    /\ wsConnection' = NULL
                    /\ sockets' = closed
                    /\ requestedKeys' = {}
               ELSE /\ HasFreeSlot(closed)
                    /\ wsConnection' = FreeSlot(closed)
                    /\ sockets' = [closed EXCEPT ![FreeSlot(closed)] =
                                       [NewSocket({instrumentKeyRef})
                                          EXCEPT !.handlers = ViewHandlers(interval)]]
                    /\ emitted' = <<>>
                    /\ requestedKeys' = {instrumentKeyRef}
            /\ Becomes(reported(stopPollingFallback(Poller), now, emitted', interval))

\* the parent shows the view (asset is set, isOpen becomes true): the cleanup
\* of the realtime effect runs, the load effect calls loadChartData, the
\* realtime effect calls initializeRealtimeData when the timeframe is '1D', and
\* the strategy effect calls fetchStrategy
OpenChart ==
    /\ ~MicrotaskQueued
    /\ ~isOpen
    /\ isOpen' = TRUE
    /\ loadChartData(selected, FALSE)
    /\ IF selected.timeframe = "1D" THEN reattach(selected.interval) ELSE cleanup
    /\ fetchStrategy
    /\ UNCHANGED <<envVars, wssVars, candleCache, instrumentKeyRef, selected, pureVars>>

\* the parent renders again while the view is shown: asset is a new object
\* (part_008 lines 698-703), so every effect of the view runs again
AssetChanged ==
    /\ ~MicrotaskQueued
    /\ isOpen
    /\ loadChartData(selected, FALSE)
    /\ IF selected.timeframe = "1D" THEN reattach(selected.interval) ELSE cleanup
    /\ fetchStrategy
    /\ UNCHANGED <<envVars, wssVars, candleCache, isOpen, instrumentKeyRef, selected,
                   pureVars>>

\* the parent hides the view (asset becomes null, isOpen false): the cleanup of
\* the realtime effect runs; no effect does anything when it runs again
CloseChart ==
    /\ ~MicrotaskQueued
    /\ isOpen
    /\ isOpen' = FALSE
    /\ cleanup
    /\ UNCHANGED <<envVars, wssVars, candleCache, displayVars, instrumentKeyRef,
                   searching, strategySearching, selected, pureVars>>

\* searchInstruments resolves with the instrument for the loadChartData call
\* load: it goes on (lines 63-82) to the await of getCandleIntraday or
\* getCandleHistory, and to the end (lines 88-114) when that returns a cached
\* series
SearchResolved(load) ==
    /\ ~MicrotaskQueued
    /\ searching[load] > 0
    /\ searching' = [searching EXCEPT ![load] = @ - 1]
    /\ instrumentKeyRef' = ChartInstrument
    /\ IF load.timeframe = "1D" /\ isWithinMarketHours(now)
       THEN getCandleIntradayBody("getCandleIntraday", "loadChartData", "1D",
                                  ChartInstrument, load.interval, load.forceRefresh, 500)
       ELSE getCandleHistoryBody("loadChartData", ChartInstrument, load.timeframe,
                                 load.interval, load.forceRefresh)
    /\ IF lastCall'.kind = "hit"
       THEN /\ chartData' = lastCall'.data
            /\ chartError' = (Len(lastCall'.data) = 0)
            /\ isLoadingChart' = FALSE
       ELSE UNCHANGED displayVars
    /\ UNCHANGED <<envVars, wsVars, wssVars, pollVars, isOpen, strategySearching,
                   selected, pureVars>>

\* searchInstruments finds nothing or fails: loadChartData throws into its
\* catch block (lines 109-114)
SearchFailed(load) ==
    /\ ~MicrotaskQueued
    /\ searching[load] > 0
    /\ searching' = [searching EXCEPT ![load] = @ - 1]
    /\ chartData' = <<>>
    /\ chartError' = TRUE
    /\ isLoadingChart' = FALSE
    /\ UNCHANGED <<envVars, wsVars, wssVars, fetchVars, pollVars, isOpen, instrumentKeyRef,
                   strategySearching, selected, pureVars>>

\* the searchInstruments call of fetchStrategy resolves with the instrument
\* (lines 206-210)
StrategySearchResolved ==
    /\ ~MicrotaskQueued
    /\ strategySearching > 0
    /\ strategySearching' = strategySearching - 1
    /\ instrumentKeyRef' = ChartInstrument
    /\ UNCHANGED <<envVars, wsVars, wssVars, fetchVars, pollVars, displayVars, isOpen,
                   searching, selected, pureVars>>

\* the searchInstruments call of fetchStrategy finds nothing or fails
StrategySearchFailed ==
    /\ ~MicrotaskQueued
    /\ strategySearching > 0
    /\ strategySearching' = strategySearching - 1
    /\ UNCHANGED <<envVars, wsVars, wssVars, fetchVars, pollVars, displayVars, isOpen,
                   instrumentKeyRef, searching, selected, pureVars>>

\* the user presses Retry in the strategy panel (lines 648-656, 824-832),
\* shown when strategyError is set and isGettingStrategy is false. While
\* instrumentKeyRef.current is null every fetchStrategy call that is past its
\* search has thrown at line 213, so the button is shown as soon as no such
\* search is awaited; with the key resolved fetchStrategy awaits no search and
\* the press changes nothing of the chart
StrategyRetry ==
    /\ ~MicrotaskQueued
    /\ isOpen
    /\ instrumentKeyRef = NoInstrument
    /\ strategySearching = 0
    /\ fetchStrategy
    /\ UNCHANGED <<envVars, wsVars, wssVars, fetchVars, pollVars, displayVars, isOpen,
                   instrumentKeyRef, searching, selected, pureVars>>

\* the user presses Retry, shown with the error message when no load is
\* marked as running (lines 528-540): loadChartData(true)
Retry ==
    /\ ~MicrotaskQueued
    /\ isOpen
    /\ ~isLoadingChart
    /\ chartError
    /\ loadChartData(selected, TRUE)
    /\ UNCHANGED <<envVars, wsVars, wssVars, fetchVars, pollVars, isOpen, instrumentKeyRef,
                   strategySearching, selected, pureVars>>

\* the user presses the timeframe button tf (line 504): the cleanup of the
\* realtime effect runs, the load effect calls loadChartData and the realtime
\* effect calls initializeRealtimeData when tf is '1D'
SelectTimeframe(tf) ==
    /\ ~MicrotaskQueued
    /\ isOpen
    /\ tf # selected.timeframe
    /\ selected' = [selected EXCEPT !.timeframe = tf]
    /\ loadChartData(selected', FALSE)
    /\ IF tf = "1D" THEN reattach(selected.interval) ELSE cleanup
    /\ UNCHANGED <<envVars, wssVars, candleCache, isOpen, instrumentKeyRef,
                   strategySearching, pureVars>>

\* the user picks the resolution iv in the dropdown (line 515): the load effect
\* and, initializeRealtimeData having changed, the realtime effect run again
SelectInterval(iv) ==
    /\ ~MicrotaskQueued
    /\ isOpen
    /\ iv # selected.interval
    /\ selected' = [selected EXCEPT !.interval = iv]
    /\ loadChartData(selected', FALSE)
    /\ IF selected.timeframe = "1D" THEN reattach(iv) ELSE cleanup
    /\ UNCHANGED <<envVars, wssVars, candleCache, isOpen, instrumentKeyRef,
                   strategySearching, pureVars>>

\* --------------------------------------------------------- websocketService
shouldUseBackend == CONFIGURED_REAL_BACKEND /\ ~demoMode

\* a socket object nothing refers to any more leaves the model
Release(sk, s) ==
    IF s # NULL /\ sk[s].readyState = "CLOSED"
    THEN [sk EXCEPT ![s] = FreeSocket]
    ELSE sk

\* WebSocket.send(command): throws on CONNECTING (see SendThrows), reaches the
\* server on OPEN, is discarded on CLOSING / CLOSED
send(sk, s, action, instrumentKeys) ==
    IF sk[s].readyState # "OPEN"
    THEN sk
    ELSE IF action = "subscribe"
    THEN [sk EXCEPT ![s].subscribed = @ \cup instrumentKeys]
    ELSE [sk EXCEPT ![s].subscribed = @ \ instrumentKeys]

SendThrows(sk, s) == sk[s].readyState = "CONNECTING"

\* websocketService.subscribe: the sockets and the subscription set after the call
subscribe(sk, connected, keySet, instrumentKeys) ==
    IF socket = NULL \/ ~connected
    THEN [sockets |-> sk, subscribedKeys |-> keySet \cup instrumentKeys]
    ELSE IF SendThrows(sk, socket)
    THEN [sockets |-> sk, subscribedKeys |-> keySet]
    ELSE [sockets |-> send(sk, socket, "subscribe", instrumentKeys),
          subscribedKeys |-> keySet \cup instrumentKeys]

\* websocketService.unsubscribe
unsubscribe(sk, connected, keySet, instrumentKeys) ==
    IF socket = NULL \/ ~connected
    THEN [sockets |-> sk, subscribedKeys |-> keySet \ instrumentKeys]
    ELSE IF SendThrows(sk, socket)
    THEN [sockets |-> sk, subscribedKeys |-> keySet]
    ELSE [sockets |-> send(sk, socket, "unsubscribe", instrumentKeys),
          subscribedKeys |-> keySet \ instrumentKeys]

\* body of websocketService.connect, shared by consumers and the reconnect timer
connect ==
    IF ~shouldUseBackend
    THEN UNCHANGED <<socket, wssSockets>>
    ELSE IF socket # NULL /\ isConnected
    THEN UNCHANGED <<socket, wssSockets>>
    ELSE IF ~token
    THEN UNCHANGED <<socket, wssSockets>>
    ELSE LET sk == Release(wssSockets, socket)
         IN /\ HasFreeSlot(sk)
            /\ socket' = FreeSlot(sk)
            /\ wssSockets' = [sk EXCEPT ![FreeSlot(sk)] = NewSocket({})]

\* a consumer calls websocketService.connect()
WssConsumerConnect ==
    /\ connect
    /\ wssDeliberate' = FALSE
    /\ UNCHANGED <<isConnected, subscribedKeys, reconnectAttempts, wssTimers,
                   wantedKeys, wssRest>>

\* the setTimeout(() => websocketService.connect(), reconnectDelay) callback runs
WssReconnectTimerFire ==
    /\ wssTimers > 0
    /\ wssTimers' = wssTimers - 1
    /\ connect
    /\ UNCHANGED <<isConnected, subscribedKeys, reconnectAttempts, wantedKeys,
                   wssDeliberate, wssRest>>

\* state.socket.onopen of socket s
WssSocketOpen(s) ==
    /\ wssSockets[s].readyState = "CONNECTING"
    /\ isConnected' = TRUE
    /\ reconnectAttempts' = 0
    /\ LET sk == [wssSockets EXCEPT ![s].readyState = "OPEN"]
       IN IF Cardinality(subscribedKeys) > 0
          THEN /\ wssSockets' = subscribe(sk, TRUE, subscribedKeys, subscribedKeys).sockets
               /\ subscribedKeys' =
                      subscribe(sk, TRUE, subscribedKeys, subscribedKeys).subscribedKeys
          ELSE /\ wssSockets' = sk
               /\ UNCHANGED subscribedKeys
    /\ UNCHANGED <<socket, wssTimers, wantedKeys, wssDeliberate, wssRest>>

\* the close codes a browser delivers: 1000 after a completed closing handshake,
\* 1006 when the connection failed or was closed before it was established
CloseCodes(sock) ==
    IF sock.readyState = "CONNECTING" \/ sock.failing THEN {1006} ELSE {1000, 1006}

\* state.socket.onclose of socket s with event.code = code
WssSocketClose(s, code) ==
    /\ wssSockets[s].readyState \in {"CONNECTING", "OPEN", "CLOSING"}
    /\ code \in CloseCodes(wssSockets[s])
    /\ isConnected' = FALSE
    /\ wssSockets' = [wssSockets EXCEPT ![s] =
                         IF socket = s THEN [FreeSocket EXCEPT !.readyState = "CLOSED"]
                         ELSE FreeSocket]
    /\ IF code # 1000 /\ reconnectAttempts < maxReconnectAttempts
       THEN /\ wssTimers < MaxTimers
            /\ reconnectAttempts' = reconnectAttempts + 1
            /\ wssTimers' = wssTimers + 1
       ELSE UNCHANGED <<reconnectAttempts, wssTimers>>
    /\ UNCHANGED <<socket, subscribedKeys, wantedKeys, wssDeliberate, wssRest>>

\* websocketService.disconnect()
disconnect ==
    /\ IF socket # NULL
       THEN /\ wssSockets' = Release([wssSockets EXCEPT ![socket] = close(@)], socket)
            /\ socket' = NULL
            /\ isConnected' = FALSE
            /\ subscribedKeys' = {}
       ELSE UNCHANGED <<wssSockets, socket, isConnected, subscribedKeys>>
    /\ wantedKeys' = {}
    /\ wssDeliberate' = TRUE
    /\ UNCHANGED <<reconnectAttempts, wssTimers, wssRest>>

\* a consumer calls websocketService.subscribe(instrumentKeys)
Subscribe(instrumentKeys) ==
    /\ wssSockets' = subscribe(wssSockets, isConnected, subscribedKeys, instrumentKeys).sockets
    /\ subscribedKeys' =
           subscribe(wssSockets, isConnected, subscribedKeys, instrumentKeys).subscribedKeys
    /\ wantedKeys' = wantedKeys \cup instrumentKeys
    /\ UNCHANGED <<socket, isConnected, reconnectAttempts, wssTimers, wssDeliberate,
                   wssRest>>

\* a consumer calls websocketService.unsubscribe(instrumentKeys)
Unsubscribe(instrumentKeys) ==
    /\ wssSockets' =
           unsubscribe(wssSockets, isConnected, subscribedKeys, instrumentKeys).sockets
    /\ subscribedKeys' =
           unsubscribe(wssSockets, isConnected, subscribedKeys, instrumentKeys).subscribedKeys
    /\ wantedKeys' = wantedKeys \ instrumentKeys
    /\ UNCHANGED <<socket, isConnected, reconnectAttempts, wssTimers, wssDeliberate,
                   wssRest>>

\* ------------------------------------------------------------- environment
AdvanceClock(d) ==
    /\ ~MicrotaskQueued
    /\ advances < MaxAdvances
    /\ now' = now + d
    /\ advances' = advances + 1
    /\ lastCall' = NoCall
    /\ UNCHANGED <<token, demoMode, wsVars, wssVars, candleCache, activeRequests, requests,
                   pollVars, viewVars, pureVars>>

\* apiConfig.setToken (login)
setToken ==
    /\ ~token
    /\ token' = TRUE
    /\ UNCHANGED <<now, advances, demoMode, wsVars, wssVars, fetchVars, pollVars, viewVars,
                   pureVars>>

\* apiConfig.clearToken (logout)
clearToken ==
    /\ token
    /\ token' = FALSE
    /\ UNCHANGED <<now, advances, demoMode, wsVars, wssVars, fetchVars, pollVars, viewVars,
                   pureVars>>

\* apiConfig.setDemoMode(enable)
setDemoMode(enable) ==
    /\ demoMode # enable
    /\ demoMode' = enable
    /\ UNCHANGED <<now, advances, token, wsVars, wssVars, fetchVars, pollVars, viewVars,
                   pureVars>>

\* --------------------------------------------------------- specifications
\* candles as the backend returns them: timestamp in ms, prices, volume
Raw(ts, o, h, l, c, v) ==
    [timestamp |-> ts, open |-> o, high |-> h, low |-> l, close |-> c, volume |-> v]

\* response bodies: no candles, and a series that needs all of cleanChartData
\* (out of order, two records in the same second, one with high < low)
Responses ==
    {<<>>,
     <<Raw(120000, 11, 14, 10, 13, 7), Raw(60000, 10, 12, 9, 11, 5),
       Raw(60999, 10, 15, 9, 12, 6), Raw(180000, 12, 11, 13, 12, 1)>>}

FetchInstruments == {"NSE_EQ|A"}
CacheKeys == {getCacheKey(i, tf, iv) : i \in FetchInstruments, tf \in Timeframes,
                                       iv \in Intervals \cup {"5m"}}

\* the polling fallback and the chart view after construction
\* (chartDataService.ts 43-44, AssetDetails.tsx 39-49)
InitView ==
    /\ pollingInterval = NULL
    /\ currentPollingInstrument = NoInstrument
    /\ intervals = [i \in 1..MaxIntervals |-> FreeInterval]
    /\ chartData = <<>>
    /\ isLoadingChart = FALSE
    /\ chartError = FALSE
    /\ isOpen = FALSE
    /\ instrumentKeyRef = NoInstrument
    /\ searching = NoSearch
    /\ strategySearching = 0
    /\ selected = [timeframe |-> "1D", interval |-> "5m"]

Init ==
    /\ now = StartOfRun
    /\ advances = 0
    /\ token = FALSE
    /\ demoMode = FALSE
    /\ wsConnection = NULL
    /\ wsReconnectAttempts = 0
    /\ wsReconnectTimer = NULL
    /\ sockets = [s \in 1..MaxSockets |-> FreeSocket]
    /\ timers = [t \in 1..MaxTimers |-> FreeTimer]
    /\ emitted = <<>>
    /\ deliberate = FALSE
    /\ requestedKeys = {}
    /\ runDelays = <<>>
    /\ socket = NULL
    /\ isConnected = FALSE
    /\ subscribedKeys = {}
    /\ reconnectAttempts = 0
    /\ wssSockets = [s \in 1..MaxSockets |-> FreeSocket]
    /\ wssTimers = 0
    /\ wantedKeys = {}
    /\ wssDeliberate = FALSE
    /\ candleCache = [k \in CacheKeys |-> NoEntry]
    /\ activeRequests = [k \in CacheKeys |-> NULL]
    /\ requests = [r \in 1..MaxFetches |-> FreeRequest]
    /\ lastCall = NoCall
    /\ InitView
    /\ input = <<>>
    /\ result = <<>>
    /\ op = "none"

\* chartDataService's stream manager with its consumers and its environment;
\* consumers pass one of the key lists of `lists`
WsNextWith(lists) ==
    \/ \E k \in lists : ConsumerConnect(k)
    \/ \E t \in 1..MaxTimers : ReconnectTimerFire(t)
    \/ \E s \in 1..MaxSockets : SocketOpen(s)
    \/ \E s \in 1..MaxSockets : SocketClose(s)
    \/ \E s \in 1..MaxSockets : SocketFail(s)
    \/ disconnectMarketWebSocket
    \/ \E d \in MarketClockSteps : AdvanceClock(d)
    \/ setToken
    \/ clearToken

WsNext == WsNextWith(KeyLists)
SpecWs == Init /\ [][WsNext]_vars

\* the same manager watched by a chart of one instrument: the retry logic
\* never looks at the keys
WsRetryNext == WsNextWith({{"NSE_EQ|A"}})
SpecWsRetry == Init /\ [][WsRetryNext]_vars

\* websocketService with its consumers and its environment
WssNext ==
    \/ WssConsumerConnect
    \/ WssReconnectTimerFire
    \/ \E s \in 1..MaxSockets : WssSocketOpen(s)
    \/ \E s \in 1..MaxSockets, code \in {1000, 1006} : WssSocketClose(s, code)
    \/ disconnect
    \/ \E k \in KeyLists : Subscribe(k)
    \/ \E k \in KeyLists : Unsubscribe(k)
    \/ \E d \in MarketClockSteps : AdvanceClock(d)
    \/ setToken
    \/ clearToken
    \/ \E e \in BOOLEAN : setDemoMode(e)

SpecWss == Init /\ [][WssNext]_vars

\* the candle fetcher with its consumers, the backend and the clock; consumers
\* ask for the timeframes tfs at the resolutions ivs, the backend answers with
\* one of bodies
FetchNextWith(tfs, ivs, bodies) ==
    \/ \E i \in FetchInstruments, tf \in tfs, iv \in ivs, f \in BOOLEAN :
          getCandleHistory(i, tf, iv, f)
    \/ \E i \in FetchInstruments, iv \in ivs, f \in BOOLEAN :
          getCandleIntraday(i, iv, f)
    \/ \E r \in 1..MaxFetches, c \in bodies : FetchOk(r, c)
    \/ \E r \in 1..MaxFetches : FetchFail(r)
    \/ \E r \in 1..MaxFetches : AbortCatch(r)
    \/ \E d \in FetchClockSteps : AdvanceClock(d)

\* a chart toggling between the timeframes at one resolution
FetchNext == FetchNextWith(Timeframes, {"1m"}, Responses)
SpecFetch == Init /\ [][FetchNext]_vars

\* a one-day chart toggling between the resolutions and reloading through
\* getCandleHistory, forced or not, next to a consumer of getCandleIntraday
\* that never forces; the backend has candles
FetchDayNext ==
    \/ \E i \in FetchInstruments, iv \in Intervals, f \in BOOLEAN :
          getCandleHistory(i, "1D", iv, f)
    \/ \E i \in FetchInstruments, iv \in Intervals : getCandleIntraday(i, iv, FALSE)
    \/ \E r \in 1..MaxFetches, c \in Responses \ {<<>>} : FetchOk(r, c)
    \/ \E r \in 1..MaxFetches : FetchFail(r)
    \/ \E r \in 1..MaxFetches : AbortCatch(r)
    \/ \E d \in FetchClockSteps : AdvanceClock(d)
SpecFetchDay == Init /\ [][FetchDayNext]_vars

\* a chart toggling between the timeframes at one resolution, loading through
\* getCandleHistory (history endpoint for '1W', intraday endpoint for '1D')
\* and getCandleIntraday, forced or not; the backend has candles
FetchTtlNext == FetchNextWith(Timeframes, {"1m"}, Responses \ {<<>>})
SpecFetchTtl == Init /\ [][FetchTtlNext]_vars

\* the polling fallback with a consumer that starts and stops it at will, the
\* backend and the clock
PollNext ==
    \/ \E i \in FetchInstruments : StartPollingFallback(i, "5m")
    \/ StopPollingFallback
    \/ cleanupChartDataService
    \/ \E i \in 1..MaxIntervals : PollTick(i)
    \/ \E r \in 1..MaxFetches, c \in Responses : FetchOk(r, c)
    \/ \E r \in 1..MaxFetches : FetchFail(r)
    \/ \E r \in 1..MaxFetches : AbortCatch(r)
    \/ \E d \in PollClockSteps : AdvanceClock(d)

SpecPoll == Init /\ [][PollNext]_vars

\* tick events of the stream: a trade above the candle with the envelope and
\* no volume field, and the same trade with the price alone
TickEvents == {[ltp |-> 16, high |-> 16, low |-> 9, vol |-> Undefined],
               [ltp |-> 16, high |-> Undefined, low |-> Undefined, vol |-> Undefined]}

\* the chart view of one asset, opened and closed by the user, with the
\* stream, the polling fallback, the backend and the clock, which takes the one
\* step across the opening of the market
ChartNext ==
    \/ OpenChart
    \/ CloseChart
    \/ AssetChanged
    \/ StrategyRetry
    \/ \E load \in Loads : SearchResolved(load)
    \/ \E load \in Loads : SearchFailed(load)
    \/ StrategySearchResolved
    \/ StrategySearchFailed
    \/ \E t \in 1..MaxTimers : ReconnectTimerFire(t)
    \/ \E s \in 1..MaxSockets : SocketOpen(s)
    \/ \E s \in 1..MaxSockets : SocketClose(s)
    \/ \E s \in 1..MaxSockets : SocketFail(s)
    \/ \E s \in 1..MaxSockets, e \in TickEvents : SocketMessage(s, e)
    \/ \E i \in 1..MaxIntervals : PollTick(i)
    \/ \E r \in 1..MaxFetches, c \in Responses \ {<<>>} : FetchOk(r, c)
    \/ \E r \in 1..MaxFetches : FetchFail(r)
    \/ \E r \in 1..MaxFetches : AbortCatch(r)
    \/ \E d \in {7000} : advances < MaxChartAdvances /\ AdvanceClock(d)
    \/ setToken

SpecChart == Init /\ [][ChartNext]_vars

\* the same view when the application starts inside the session with the user
\* logged in: Monday 09:15:06 IST, and the clock stays there
SessionStart == StartOfRun + 7000

InitSession ==
    /\ now = SessionStart
    /\ advances = 0
    /\ token = TRUE
    /\ demoMode = FALSE
    /\ wsConnection = NULL
    /\ wsReconnectAttempts = 0
    /\ wsReconnectTimer = NULL
    /\ sockets = [s \in 1..MaxSockets |-> FreeSocket]
    /\ timers = [t \in 1..MaxTimers |-> FreeTimer]
    /\ emitted = <<>>
    /\ deliberate = FALSE
    /\ requestedKeys = {}
    /\ runDelays = <<>>
    /\ socket = NULL
    /\ isConnected = FALSE
    /\ subscribedKeys = {}
    /\ reconnectAttempts = 0
    /\ wssSockets = [s \in 1..MaxSockets |-> FreeSocket]
    /\ wssTimers = 0
    /\ wantedKeys = {}
    /\ wssDeliberate = FALSE
    /\ candleCache = [k \in CacheKeys |-> NoEntry]
    /\ activeRequests = [k \in CacheKeys |-> NULL]
    /\ requests = [r \in 1..MaxFetches |-> FreeRequest]
    /\ lastCall = NoCall
    /\ InitView
    /\ input = <<>>
    /\ result = <<>>
    /\ op = "none"

SessionNext ==
    \/ OpenChart
    \/ CloseChart
    \/ AssetChanged
    \/ StrategyRetry
    \/ \E load \in Loads : SearchResolved(load)
    \/ \E load \in Loads : SearchFailed(load)
    \/ StrategySearchResolved
    \/ StrategySearchFailed
    \/ \E t \in 1..MaxTimers : ReconnectTimerFire(t)
    \/ \E s \in 1..MaxSockets : SocketOpen(s)
    \/ \E s \in 1..MaxSockets : SocketClose(s)
    \/ \E s \in 1..MaxSockets : SocketFail(s)
    \/ \E s \in 1..MaxSockets, e \in TickEvents : SocketMessage(s, e)
    \/ \E i \in 1..MaxIntervals : PollTick(i)
    \/ \E r \in 1..MaxFetches, c \in Responses \ {<<>>} : FetchOk(r, c)
    \/ \E r \in 1..MaxFetches : FetchFail(r)
    \/ \E r \in 1..MaxFetches : AbortCatch(r)

SpecSession == InitSession /\ [][SessionNext]_vars

\* what the backend answers to a request: minute candles on the intraday
\* endpoint, one daily candle on the history endpoint
BackendBody(rq) ==
    IF rq.endpoint = "intraday"
    THEN <<Raw(60000, 10, 12, 9, 11, 5), Raw(120000, 11, 14, 10, 13, 7)>>
    ELSE <<Raw(MsPerDay, 20, 22, 19, 21, 3)>>

\* the resolutions the user picks in the dropdown
PickedIntervals == {"1m", "5m"}

\* the view inside the session while the user toggles the timeframe and the
\* resolution and presses the Retry buttons and the parent renders again; the
\* searches of loadChartData and the requests succeed, and no event of the
\* stream's socket is delivered
ToggleNext ==
    \/ OpenChart
    \/ AssetChanged
    \/ Retry
    \/ StrategyRetry
    \/ \E load \in Loads : SearchResolved(load)
    \/ StrategySearchResolved
    \/ StrategySearchFailed
    \/ \E tf \in Timeframes : SelectTimeframe(tf)
    \/ \E iv \in PickedIntervals : SelectInterval(iv)
    \/ \E r \in 1..MaxFetches : FetchOk(r, BackendBody(requests[r]))
    \/ \E r \in 1..MaxFetches : AbortCatch(r)

SpecToggle == InitSession /\ [][ToggleNext]_vars

\* ------------------------------------------------------ the pure functions
\* validateCandles(input) is called
Validate ==
    /\ op = "none"
    /\ result' = validateCandles(input)
    /\ op' = "validateCandles"
    /\ UNCHANGED <<input, envVars, wsVars, wssVars, fetchVars, pollVars, viewVars>>

\* cleanChartData(input) is called
Clean ==
    /\ op = "none"
    /\ result' = cleanChartData(input)
    /\ op' = "cleanChartData"
    /\ UNCHANGED <<input, envVars, wsVars, wssVars, fetchVars, pollVars, viewVars>>

\* cleanChartData is called on what cleanChartData returned
CleanAgain ==
    /\ op = "cleanChartData"
    /\ result' = cleanChartData(result)
    /\ op' = "cleanChartData twice"
    /\ UNCHANGED <<input, envVars, wsVars, wssVars, fetchVars, pollVars, viewVars>>

\* CandleData records: time in seconds, prices, volume
Candle(t, o, h, l, c, v) ==
    [time |-> t, ts |-> 0, open |-> o, high |-> h, low |-> l, close |-> c, volume |-> v]

\* three sound candles at three times, a second sound one and an inverted one
\* (high < low) at the first time, a candle whose timestamp did not parse,
\* an unbounded high, a negative and an unbounded volume
SampleCandles ==
    {Candle(60, 10, 12, 9, 11, 5), Candle(120, 11, 14, 10, 13, 7),
     Candle(180, 12, 13, 11, 12, 1), Candle(60, 10, 15, 9, 12, 6),
     Candle(60, 12, 11, 13, 12, 1), Candle(NaN, 10, 12, 9, 11, 5),
     Candle(120, 10, Infinity, 9, 11, 5), Candle(120, 10, 12, 9, 11, -5),
     Candle(180, 10, 12, 9, 11, Infinity)}

\* all lists of at most n sample candles
RECURSIVE ListsUpTo(_)
ListsUpTo(n) ==
    IF n = 0 THEN {<<>>}
    ELSE LET shorter == ListsUpTo(n - 1)
         IN shorter \cup {Append(l, c) : l \in {x \in shorter : Len(x) = n - 1},
                                         c \in SampleCandles}

InitCandles ==
    /\ input \in ListsUpTo(MaxLen)
    /\ result = <<>>
    /\ op = "none"
    /\ now = StartOfRun
    /\ advances = 0
    /\ token = FALSE
    /\ demoMode = FALSE
    /\ wsConnection = NULL
    /\ wsReconnectAttempts = 0
    /\ wsReconnectTimer = NULL
    /\ sockets = [s \in 1..MaxSockets |-> FreeSocket]
    /\ timers = [t \in 1..MaxTimers |-> FreeTimer]
    /\ emitted = <<>>
    /\ deliberate = FALSE
    /\ requestedKeys = {}
    /\ runDelays = <<>>
    /\ socket = NULL
    /\ isConnected = FALSE
    /\ subscribedKeys = {}
    /\ reconnectAttempts = 0
    /\ wssSockets = [s \in 1..MaxSockets |-> FreeSocket]
    /\ wssTimers = 0
    /\ wantedKeys = {}
    /\ wssDeliberate = FALSE
    /\ candleCache = [k \in CacheKeys |-> NoEntry]
    /\ activeRequests = [k \in CacheKeys |-> NULL]
    /\ requests = [r \in 1..MaxFetches |-> FreeRequest]
    /\ lastCall = NoCall
    /\ InitView

CandlesNext == Validate \/ Clean \/ CleanAgain
SpecCandles == InitCandles /\ [][CandlesNext]_vars

\* isWithinMarketHours() is called
CheckMarketHours ==
    /\ op = "none"
    /\ result' = isWithinMarketHours(now)
    /\ op' = "isWithinMarketHours"
    /\ UNCHANGED <<input, envVars, wsVars, wssVars, fetchVars, pollVars, viewVars>>

\* getLastMarketDay() is called
LastMarketDay ==
    /\ op = "none"
    /\ result' = getLastMarketDay(now)
    /\ op' = "getLastMarketDay"
    /\ UNCHANGED <<input, envVars, wsVars, wssVars, fetchVars, pollVars, viewVars>>

\* ms since midnight of h:m:s
TimeOfDay(h, m, sec) == (h * 60 + m) * MsPerMinute + sec * 1000

\* the times of day around the session boundaries
ClockTimes ==
    {TimeOfDay(0, 0, 0), TimeOfDay(8, 0, 0), TimeOfDay(9, 0, 0), TimeOfDay(9, 14, 59),
     TimeOfDay(9, 15, 0), TimeOfDay(12, 0, 0), TimeOfDay(15, 0, 0), TimeOfDay(15, 29, 59),
     TimeOfDay(15, 30, 0), TimeOfDay(15, 30, 1), TimeOfDay(15, 30, 59),
     TimeOfDay(15, 31, 0), TimeOfDay(16, 0, 0), TimeOfDay(23, 59, 59)}

\* every day of the weeks 1..MaxWeeks at every one of these times
Instants == {d * MsPerDay + tod : d \in 7..(7 * (MaxWeeks + 1) - 1), tod \in ClockTimes}

InitClock ==
    /\ now \in Instants
    /\ input = <<>>
    /\ result = <<>>
    /\ op = "none"
    /\ advances = 0
    /\ token = FALSE
    /\ demoMode = FALSE
    /\ wsConnection = NULL
    /\ wsReconnectAttempts = 0
    /\ wsReconnectTimer = NULL
    /\ sockets = [s \in 1..MaxSockets |-> FreeSocket]
    /\ timers = [t \in 1..MaxTimers |-> FreeTimer]
    /\ emitted = <<>>
    /\ deliberate = FALSE
    /\ requestedKeys = {}
    /\ runDelays = <<>>
    /\ socket = NULL
    /\ isConnected = FALSE
    /\ subscribedKeys = {}
    /\ reconnectAttempts = 0
    /\ wssSockets = [s \in 1..MaxSockets |-> FreeSocket]
    /\ wssTimers = 0
    /\ wantedKeys = {}
    /\ wssDeliberate = FALSE
    /\ candleCache = [k \in CacheKeys |-> NoEntry]
    /\ activeRequests = [k \in CacheKeys |-> NULL]
    /\ requests = [r \in 1..MaxFetches |-> FreeRequest]
    /\ lastCall = NoCall
    /\ InitView

ClockNext == CheckMarketHours \/ LastMarketDay
SpecClock == InitClock /\ [][ClockNext]_vars

\* handleTick(input.event) is applied to the displayed series input.series
ApplyTick ==
    /\ op = "none"
    /\ result' = handleTick(input.series, input.event)
    /\ op' = "handleTick"
    /\ UNCHANGED <<input, envVars, wsVars, wssVars, fetchVars, pollVars, viewVars>>

\* the series the loads can display: what cleanChartData returns
DisplayedSeries == {cleanChartData(l) : l \in ListsUpTo(MaxLen)}

\* tick events: every field present or not, prices inside, below and above
\* the sample candles
AllTickEvents ==
    [ltp : {Undefined, 11, 16}, high : {Undefined, 11, 16}, low : {Undefined, 8, 10},
     vol : {Undefined, 9}]

InitTick ==
    /\ now = StartOfRun
    /\ input \in {[series |-> l, event |-> e] : l \in DisplayedSeries, e \in AllTickEvents}
    /\ result = <<>>
    /\ op = "none"
    /\ advances = 0
    /\ token = FALSE
    /\ demoMode = FALSE
    /\ wsConnection = NULL
    /\ wsReconnectAttempts = 0
    /\ wsReconnectTimer = NULL
    /\ sockets = [s \in 1..MaxSockets |-> FreeSocket]
    /\ timers = [t \in 1..MaxTimers |-> FreeTimer]
    /\ emitted = <<>>
    /\ deliberate = FALSE
    /\ requestedKeys = {}
    /\ runDelays = <<>>
    /\ socket = NULL
    /\ isConnected = FALSE
    /\ subscribedKeys = {}
    /\ reconnectAttempts = 0
    /\ wssSockets = [s \in 1..MaxSockets |-> FreeSocket]
    /\ wssTimers = 0
    /\ wantedKeys = {}
    /\ wssDeliberate = FALSE
    /\ candleCache = [k \in CacheKeys |-> NoEntry]
    /\ activeRequests = [k \in CacheKeys |-> NULL]
    /\ requests = [r \in 1..MaxFetches |-> FreeRequest]
    /\ lastCall = NoCall
    /\ InitView

TickNext == ApplyTick
SpecTick == InitTick /\ [][TickNext]_vars

\* the Timeframe type in the order of its spans, and the CandleInterval type
TimeframeOrder == <<"1D", "1W", "1M", "2M", "3M", "1Y">>
CandleIntervals == {"1m", "5m", "15m", "1h", "1d"}

\* calculateLimit is called for the timeframes at the positions input.first and
\* input.second of the order, at the resolution input.interval
CalculateLimits ==
    /\ op = "none"
    /\ result' = [first |-> calculateLimit(TimeframeOrder[input.first], input.interval),
                  second |-> calculateLimit(TimeframeOrder[input.second], input.interval)]
    /\ op' = "calculateLimit"
    /\ UNCHANGED <<input, envVars, wsVars, wssVars, fetchVars, pollVars, viewVars>>

InitLimit ==
    /\ now = StartOfRun
    /\ input \in [first : 1..Len(TimeframeOrder), second : 1..Len(TimeframeOrder),
                   interval : CandleIntervals]
    /\ result = <<>>
    /\ op = "none"
    /\ advances = 0
    /\ token = FALSE
    /\ demoMode = FALSE
    /\ wsConnection = NULL
    /\ wsReconnectAttempts = 0
    /\ wsReconnectTimer = NULL
    /\ sockets = [s \in 1..MaxSockets |-> FreeSocket]
    /\ timers = [t \in 1..MaxTimers |-> FreeTimer]
    /\ emitted = <<>>
    /\ deliberate = FALSE
    /\ requestedKeys = {}
    /\ runDelays = <<>>
    /\ socket = NULL
    /\ isConnected = FALSE
    /\ subscribedKeys = {}
    /\ reconnectAttempts = 0
    /\ wssSockets = [s \in 1..MaxSockets |-> FreeSocket]
    /\ wssTimers = 0
    /\ wantedKeys = {}
    /\ wssDeliberate = FALSE
    /\ candleCache = [k \in CacheKeys |-> NoEntry]
    /\ activeRequests = [k \in CacheKeys |-> NULL]
    /\ requests = [r \in 1..MaxFetches |-> FreeRequest]
    /\ lastCall = NoCall
    /\ InitView

LimitNext == CalculateLimits
SpecLimit == InitLimit /\ [][LimitNext]_vars

\* ------------------------------------------------------------------ claims
PendingTimers == {t \in DOMAIN timers : timers[t].pending}

\* C2: in each stream manager at most one WebSocket created by the manager is
\* connecting or open at any time.
C2_SingleConnection ==
    /\ Cardinality(Live(sockets)) <= 1
    /\ Cardinality(Live(wssSockets)) <= 1

\* C3: after a deliberate disconnect and until the next connect call of a
\* consumer, no reconnect timer is pending and no new WebSocket is created.
C3_QuietAfterDisconnect ==
    /\ [](deliberate => PendingTimers = {})
    /\ [](wssDeliberate => wssTimers = 0)
    /\ [][(deliberate /\ deliberate')
             => /\ PendingTimers' \subseteq PendingTimers
                /\ Live(sockets') \subseteq Live(sockets)]_vars
    /\ [][(wssDeliberate /\ wssDeliberate')
             => /\ wssTimers' <= wssTimers
                /\ Live(wssSockets') \subseteq Live(wssSockets)]_vars

\* C4: a run of closes with no open in between schedules at most five
\* reconnects, the k-th after 1, 2, 4, 8, 16 s (doubling, never above 30 s);
\* the close that finds the budget spent schedules nothing and reports
\* 'disconnected'; an open resets the retry counter.
BackoffSchedule == <<1000, 2000, 4000, 8000, 16000>>

C4_Backoff ==
    /\ [](/\ Len(runDelays) <= MAX_RECONNECT_ATTEMPTS
          /\ Len(BackoffSchedule) = MAX_RECONNECT_ATTEMPTS
          /\ \A k \in 1..Len(runDelays) :
                /\ runDelays[k] = BackoffSchedule[k]
                /\ runDelays[k] <= 30000
                /\ k > 1 => runDelays[k - 1] <= runDelays[k])
    /\ [][/\ (/\ \E s \in 1..MaxSockets : SocketClose(s) \/ SocketFail(s)
              /\ Len(runDelays) = MAX_RECONNECT_ATTEMPTS)
             => /\ timers' = timers
                /\ runDelays' = runDelays
                /\ emitted'[Len(emitted')] = "disconnected"
          /\ (\E s \in 1..MaxSockets : SocketOpen(s)) => wsReconnectAttempts' = 0]_vars

\* the stream manager has given up: five reconnects were scheduled and failed
C4_Witness ==
    /\ Len(runDelays) = MAX_RECONNECT_ATTEMPTS
    /\ isMarketOpen(now)
    /\ wsConnection = NULL
    /\ PendingTimers = {}
    /\ Live(sockets) = {}
    /\ emitted \in {<<"disconnected">>, <<"error", "disconnected">>}

\* C5: a close while the market is closed schedules no reconnect, in either
\* stream manager, whatever the retry count.
C5_NoReconnectWhenMarketClosed ==
    [][(/\ ~isMarketOpen(now)
        /\ \/ \E s \in 1..MaxSockets : SocketClose(s) \/ SocketFail(s)
           \/ \E s \in 1..MaxSockets, code \in {1000, 1006} : WssSocketClose(s, code))
       => timers' = timers /\ wssTimers' = wssTimers]_vars

\* C6: subscribedKeys is exactly the set of keys subscribed and not later
\* unsubscribed since the last disconnect, and every successful open sends a
\* subscribe command carrying the whole set on the socket that opened.
C6_SubscriptionSetMirrorsConsumer ==
    /\ [](subscribedKeys = wantedKeys)
    /\ [][\A s \in 1..MaxSockets :
             WssSocketOpen(s) => wssSockets'[s].subscribed = subscribedKeys']_vars

\* C7: every key passed to a connectMarketWebSocket call since the last
\* disconnect is subscribed on the live connection once it is open, also
\* after a reconnect.
C7_AllRequestedKeysSubscribed ==
    \A s \in 1..MaxSockets :
        (s = wsConnection /\ sockets[s].readyState = "OPEN")
            => requestedKeys \subseteq sockets[s].subscribed

\* C8: connectMarketWebSocket with no connection and no token reports 'error'
\* exactly once, creates no socket, schedules no timer and leaves
\* wsConnection, wsReconnectAttempts and wsReconnectTimer unchanged.
C8_NoTokenNoConnection ==
    [][(wsConnection = NULL /\ ~token)
       => /\ (\E k \in KeyLists : ConsumerConnect(k))
                => /\ emitted' = <<"error">>
                   /\ UNCHANGED <<wsConnection, wsReconnectAttempts, wsReconnectTimer,
                                  sockets, timers>>
          /\ (\E t \in 1..MaxTimers : ReconnectTimerFire(t))
                => /\ emitted' = <<"error">>
                   /\ PendingTimers' \subseteq PendingTimers
                   /\ UNCHANGED <<wsConnection, wsReconnectAttempts, wsReconnectTimer,
                                  sockets>>]_vars

\* a connect call has just been refused for want of a token
C8_Witness ==
    /\ emitted = <<"error">>
    /\ ~token
    /\ wsConnection = NULL
    /\ Live(sockets) = {}

\* C1: the last fetch initiated for a cache key wins: no fetch writes the
\* cache entry of its key after a later fetch for that key has been
\* initiated, so once all have settled the entry is that of the last
\* initiated fetch that succeeded.
C1_LastInitiatedFetchWins ==
    \A k \in CacheKeys : candleCache[k].by # "superseded"

\* a getCandle* call that uses the cache key of (i, tf, iv), forceRefresh = f
CallOn(i, tf, iv, f) ==
    \/ getCandleHistory(i, tf, iv, f)
    \/ tf = "1D" /\ getCandleIntraday(i, iv, f)

\* C9: without forceRefresh an entry younger than CACHE_TTL is returned with
\* no network call, an entry older than CACHE_TTL is removed and a network
\* fetch is issued; with forceRefresh a network fetch is always issued.
C9_CacheTtl ==
    [][\A i \in FetchInstruments, tf \in Timeframes, iv \in Intervals :
          LET k == getCacheKey(i, tf, iv)
          IN /\ (/\ candleCache[k] # NoEntry
                 /\ now - candleCache[k].timestamp < CACHE_TTL
                 /\ CallOn(i, tf, iv, FALSE))
                   => /\ lastCall' = [kind |-> "hit", data |-> candleCache[k].data]
                      /\ UNCHANGED <<requests, activeRequests, candleCache>>
             /\ (/\ candleCache[k] # NoEntry
                 /\ now - candleCache[k].timestamp > CACHE_TTL
                 /\ CallOn(i, tf, iv, FALSE))
                   => /\ candleCache'[k] = NoEntry
                      /\ lastCall'.kind = "issued"
                      /\ Cardinality(InFlight(requests')) > Cardinality(InFlight(requests))
             /\ CallOn(i, tf, iv, TRUE)
                   => /\ lastCall'.kind = "issued"
                      /\ activeRequests'[k] # NULL
                      /\ requests[activeRequests'[k]].state = "free"
                      /\ requests'[activeRequests'[k]].state = "pending"
                      /\ requests'[activeRequests'[k]].key = k]_vars

\* a one-week request was just served by getCandleHistory's own cache check
\* from an entry one second short of the TTL
C9_Witness ==
    /\ lastCall.kind = "hit"
    /\ LET k == "NSE_EQ|A|1W|1m"
       IN /\ candleCache[k] # NoEntry
          /\ now - candleCache[k].timestamp = CACHE_TTL - 1000
          /\ lastCall.data = candleCache[k].data
          /\ Len(lastCall.data) > 0

\* C10: getCandleHistory with timeframe '1D' never requests the history
\* endpoint: it issues the intraday request with limit 200, and touches only
\* the cache key (instrumentKey, '1D', interval).
C10_OneDayUsesIntraday ==
    /\ [](\A r \in InFlight(requests) :
             /\ requests[r].endpoint = "history" => requests[r].timeframe # "1D"
             /\ (requests[r].caller = "getCandleHistory" /\ requests[r].timeframe = "1D")
                   => /\ requests[r].endpoint = "intraday"
                      /\ requests[r].limit = 200
                      /\ \E i \in FetchInstruments, iv \in Intervals :
                            requests[r].key = getCacheKey(i, "1D", iv))
    /\ [][\A i \in FetchInstruments, iv \in Intervals, f \in BOOLEAN :
             getCandleHistory(i, "1D", iv, f)
                => /\ \A k \in CacheKeys \ {getCacheKey(i, "1D", iv)} :
                         /\ candleCache'[k] = candleCache[k]
                         /\ activeRequests'[k] = activeRequests[k]
                   /\ \A r \in InFlight(requests') \ InFlight(requests) :
                         /\ requests'[r].endpoint = "intraday"
                         /\ requests'[r].limit = 200
                         /\ requests'[r].key = getCacheKey(i, "1D", iv)]_vars

\* a one-day history request at daily resolution is in flight
C10_Witness ==
    \E r \in InFlight(requests) :
        /\ requests[r].caller = "getCandleHistory"
        /\ requests[r].timeframe = "1D"
        /\ requests[r].key = "NSE_EQ|A|1D|1d"
        /\ requests[r].endpoint = "intraday"
        /\ requests[r].state = "pending"

\* the continuation of request r returns through a failure branch
Fails(r) == FetchFail(r) \/ AbortCatch(r)

\* C11 as stated: a fetch that fails resolves to the empty series, and neither
\* the call that issued it nor its failure branch has changed the cache entry
\* of its key.
C11_EntryAsBeforeTheCall ==
    [][\A r \in 1..MaxFetches :
          Fails(r) => /\ lastCall'.data = <<>>
                      /\ ~requests[r].evicted
                      /\ candleCache' = candleCache]_vars

\* C11 amended: the failure branch itself returns the empty series and changes
\* no cache entry; an entry is written only by the continuation of a request
\* that received a success response, and removed only by the TTL check of a
\* call made without forceRefresh.
C11_FailureWritesNothing ==
    [][/\ \A r \in 1..MaxFetches :
             Fails(r) => /\ lastCall'.kind \in {"failed", "aborted"}
                         /\ lastCall'.data = <<>>
                         /\ candleCache' = candleCache
       /\ \A k \in CacheKeys :
             candleCache'[k] # candleCache[k]
                => \/ /\ candleCache'[k] = NoEntry
                      /\ now - candleCache[k].timestamp > CACHE_TTL
                      /\ lastCall'.kind = "issued"
                   \/ /\ lastCall'.kind = "ok"
                      /\ \E r \in 1..MaxFetches :
                            /\ requests[r].state = "pending"
                            /\ requests[r].key = k
                            /\ requests'[r].state = "free"
                      /\ candleCache'[k].data = lastCall'.data]_vars

\* a fetch has just failed while the cache holds a series for the one-week
\* chart (history endpoint) and one for the one-day chart (intraday endpoint)
C11_Witness ==
    /\ lastCall = [kind |-> "failed", data |-> <<>>]
    /\ candleCache["NSE_EQ|A|1W|1m"] # NoEntry
    /\ Len(candleCache["NSE_EQ|A|1W|1m"].data) > 0
    /\ candleCache["NSE_EQ|A|1D|1m"] # NoEntry

\* JavaScript's < and <= on numbers: false as soon as one side is NaN
Lt(a, b) == ~isNaN(a) /\ ~isNaN(b) /\ a < b
Le(a, b) == ~isNaN(a) /\ ~isNaN(b) /\ a <= b

\* what the normalizer promises of every record it lets through
SoundCandle(c) ==
    /\ Lt(0, c.open) /\ Lt(0, c.high) /\ Lt(0, c.low) /\ Lt(0, c.close)
    /\ Le(0, c.volume)
    /\ Le(c.low, c.open) /\ Le(c.open, c.high)
    /\ Le(c.low, c.close) /\ Le(c.close, c.high)

\* C12: the output of cleanChartData has strictly increasing time, every
\* element is sound, each is the first sound input record with its time, every
\* time of a sound input record is present, and the output is empty when no
\* input record is sound.
C12_CleanOutput ==
    op = "cleanChartData" =>
        /\ \A i \in 1..(Len(result) - 1) : Lt(result[i].time, result[i + 1].time)
        /\ \A i \in 1..Len(result) :
              /\ SoundCandle(result[i])
              /\ \E j \in 1..Len(input) :
                    /\ input[j] = result[i]
                    /\ \A k \in 1..(j - 1) :
                          ~(SoundCandle(input[k]) /\ input[k].time = input[j].time)
        /\ \A j \in 1..Len(input) :
              SoundCandle(input[j])
                 => \E i \in 1..Len(result) : result[i].time = input[j].time
        /\ (\A j \in 1..Len(input) : ~SoundCandle(input[j])) => result = <<>>

\* C13: cleanChartData applied to its own output returns that output.
C13_CleanIdempotent ==
    [][CleanAgain => result' = result]_vars

\* a list that needed cleaning has been cleaned twice
C13_Witness ==
    /\ op = "cleanChartData twice"
    /\ Len(input) = 3
    /\ Len(result) = 2
    /\ result # SubSeq(input, 1, 2)
    /\ result # SubSeq(input, 2, 3)

Finite(x) == ~isNaN(x) /\ x # Infinity /\ x # -Infinity

\* the records validation has to keep, as C14 words it
KeptByValidation(c) ==
    /\ Finite(c.open) /\ Finite(c.high) /\ Finite(c.low) /\ Finite(c.close)
    /\ c.open > 0 /\ c.high > 0 /\ c.low > 0 /\ c.close > 0
    /\ Finite(c.volume) /\ c.volume >= 0
    /\ c.low <= c.open /\ c.open <= c.high
    /\ c.low <= c.close /\ c.close <= c.high
    /\ c.low <= c.high

\* C14: validateCandles keeps exactly the records with finite positive prices,
\* finite non-negative volume and low <= open, close <= high, in input order,
\* whatever the other records of the batch are.
C14_ValidationRule ==
    op = "validateCandles" => result = SelectSeq(input, KeptByValidation)

\* days since a Monday, and the weekday of an instant counted from Monday = 0
DayNumber(t) == t \div MsPerDay
Weekday(t) == DayNumber(t) % 7

\* C15: isWithinMarketHours is true exactly from 09:15:00 up to and including
\* 15:29:59 IST on Monday-Friday: false at 09:14:59, true at 09:15:00, false
\* at 15:30:00 and 15:30:01, false all Saturday and Sunday.
C15_SessionWindow ==
    op = "isWithinMarketHours" =>
        /\ result = (/\ Weekday(now) \in 0..4
                     /\ now % MsPerDay >= TimeOfDay(9, 15, 0)
                     /\ now % MsPerDay <= TimeOfDay(15, 29, 59))
        /\ now % MsPerDay = TimeOfDay(9, 14, 59) => result = FALSE
        /\ (now % MsPerDay = TimeOfDay(9, 15, 0) /\ Weekday(now) \in 0..4) => result = TRUE
        /\ now % MsPerDay \in {TimeOfDay(15, 30, 0), TimeOfDay(15, 30, 1)} => result = FALSE
        /\ Weekday(now) \in {5, 6} => result = FALSE

\* the last second of a Friday session was found open
C15_Witness ==
    /\ op = "isWithinMarketHours"
    /\ Weekday(now) = 4
    /\ now % MsPerDay = TimeOfDay(15, 29, 59)
    /\ result = TRUE

\* C16: getLastMarketDay returns a Monday-Friday date: 1 day back on Saturday,
\* 2 on Sunday, 3 on Monday before 09:15, 1 on Tuesday-Friday before 09:15,
\* the same day on a weekday from 09:15 on.
C16_LastMarketDay ==
    op = "getLastMarketDay" =>
        LET back == DayNumber(now) - DayNumber(result)
            preOpen == now % MsPerDay < TimeOfDay(9, 15, 0)
        IN /\ Weekday(result) \in 0..4
           /\ Weekday(now) = 5 => back = 1
           /\ Weekday(now) = 6 => back = 2
           /\ (Weekday(now) = 0 /\ preOpen) => back = 3
           /\ (Weekday(now) \in 1..4 /\ preOpen) => back = 1
           /\ (Weekday(now) \in 0..4 /\ ~preOpen) => back = 0

\* asked on a Monday at 08:00, the answer was the Friday before
C16_Witness ==
    /\ op = "getLastMarketDay"
    /\ Weekday(now) = 0
    /\ now % MsPerDay = TimeOfDay(8, 0, 0)
    /\ Weekday(result) = 4
    /\ DayNumber(now) - DayNumber(result) = 3

\* C17: a call of startPollingFallback while the market is closed issues no
\* fetch, calls no onUpdate, creates no timer and leaves pollingInterval and
\* currentPollingInstrument as they were
C17_ClosedMarketStartIsNoOp ==
    [][\A i \in FetchInstruments :
          (StartPollingFallback(i, "5m") /\ ~isWithinMarketHours(now))
          => UNCHANGED <<pollingInterval, currentPollingInstrument, intervals,
                         requests, activeRequests, chartData>>]_vars

\* C18: a tick of an active poller that finds the market closed issues no
\* fetch and calls no onUpdate, clears its timer and resets pollingInterval and
\* currentPollingInstrument; with the timer cleared no tick of it runs again
C18_TickAfterCloseStopsPoller ==
    [][\A i \in 1..MaxIntervals :
          (PollTick(i) /\ ~isWithinMarketHours(now))
          => /\ UNCHANGED <<requests, activeRequests, candleCache, chartData>>
             /\ \A j \in 1..MaxIntervals : ~intervals'[j].active
             /\ pollingInterval' = NULL
             /\ currentPollingInstrument' = NoInstrument]_vars

\* a tick has found the market closed and stopped the poller
C18_Witness ==
    /\ lastCall.kind = "stopped"
    /\ ~isWithinMarketHours(now)
    /\ pollingInterval = NULL

\* C19: once the cleanup of the realtime effect has run and while the view
\* stays closed, no socket of the stream is connecting or open, no reconnect
\* timer is pending, no polling interval is running, and neither a tick nor
\* the continuation of a poll changes the displayed series
C19_TornDownWhileClosed ==
    [][/\ ~isOpen' =>
            /\ Live(sockets') = {}
            /\ PendingTimers' = {}
            /\ \A i \in 1..MaxIntervals : ~intervals'[i].active
       /\ (~isOpen /\ ~isOpen') =>
            /\ \A s \in 1..MaxSockets, e \in TickEvents :
                  SocketMessage(s, e) => chartData' = chartData
            /\ \A r \in 1..MaxFetches :
                  (requests[r].awaiter = "poll" /\ requests'[r].state = "free")
                  => chartData' = chartData]_vars

\* C20: when the view is closed no candle fetch stays in flight and the
\* registry of in-flight requests is empty
C20_CloseAbortsFetches ==
    [][CloseChart =>
          /\ \A r \in 1..MaxFetches : requests'[r].state # "pending"
          /\ \A k \in CacheKeys : activeRequests'[k] = NULL]_vars

\* the load of the view has settled: no searchInstruments call and no candle
\* fetch is awaited
LoadSettled == Searches(searching) = 0 /\ InFlight(requests) = {}

\* C21 (first half): in a session, once the load of an open one-day view has
\* resolved the instrument and settled with a series to display,
\* connectMarketWebSocket has been called
\* for the view: the stream manager holds its key, or the poller its refused
\* call started is running
C21_OpenViewAttaches ==
    (/\ isOpen
     /\ selected.timeframe = "1D"
     /\ isWithinMarketHours(now)
     /\ instrumentKeyRef # NoInstrument
     /\ LoadSettled
     /\ ~chartError)
    => \/ instrumentKeyRef \in requestedKeys
       \/ pollingInterval # NULL

Max(a, b) == IF a > b THEN a ELSE b

\* C22: handleTick keeps the number of candles and every candle but the last;
\* on the last one close becomes ltp and volume vol (when the event carries
\* them), high becomes max(high, event.high) and low min(low, event.low); an
\* empty series stays empty
C22_TickExtendsLastCandle ==
    op = "handleTick" =>
        LET prev == input.series
            event == input.event
            n == Len(prev)
        IN /\ Len(result) = n
           /\ \A i \in 1..(n - 1) : result[i] = prev[i]
           /\ n > 0 =>
                /\ result[n].time = prev[n].time
                /\ result[n].open = prev[n].open
                /\ event.ltp # Undefined => result[n].close = event.ltp
                /\ event.vol # Undefined => result[n].volume = event.vol
                /\ result[n].high = IF event.high = Undefined THEN prev[n].high
                                    ELSE Max(prev[n].high, event.high)
                /\ result[n].low = IF event.low = Undefined THEN prev[n].low
                                   ELSE Min(prev[n].low, event.low)

\* C23: the displayed series has strictly increasing times and every candle of
\* it has low <= open, close <= high
C23_DisplayedSeriesSound ==
    /\ \A i \in 1..(Len(chartData) - 1) : Lt(chartData[i].time, chartData[i + 1].time)
    /\ \A i \in 1..Len(chartData) :
          /\ Le(chartData[i].low, chartData[i].open)
          /\ Le(chartData[i].open, chartData[i].high)
          /\ Le(chartData[i].low, chartData[i].close)
          /\ Le(chartData[i].close, chartData[i].high)

\* C24: after websocketService.disconnect() returns, whatever the state it was
\* called in, the subscription set is empty and the retry counter is 0
C24_DisconnectResets ==
    [][disconnect => subscribedKeys' = {} /\ reconnectAttempts' = 0]_vars

\* C25: no polling interval is active while the stream connection of the
\* chart view is open
C25_NoPollingWhileConnected ==
    ~ /\ wsConnection # NULL
      /\ sockets[wsConnection].readyState = "OPEN"
      /\ sockets[wsConnection].handlers.component = "AssetDetails"
      /\ pollingInterval # NULL

\* the series a load for the selection of the view displays
SelectedSeries ==
    cleanChartData(formatCandles(BackendBody(
        [endpoint |-> IF selected.timeframe = "1D" /\ isWithinMarketHours(now)
                      THEN "intraday" ELSE "history"])))

\* C26: while the view is shown, once every load that was started has settled
\* the displayed series is the one of the load for the selected timeframe and
\* resolution
C26_LastSelectionDisplayed ==
    (isOpen /\ LoadSettled) => chartData = SelectedSeries

\* C27: at every resolution the limit computed by calculateLimit does not
\* decrease when the timeframe span grows
C27_LimitMonotone ==
    (op = "calculateLimit" /\ input.first <= input.second)
        => result.first <= result.second

\* C28: at every instant isWithinMarketHours returns what isMarketOpen returns
C28_MarketPredicatesAgree ==
    op = "isWithinMarketHours" => result = isMarketOpen(now)

\* the requests for the cache key k whose fetch has not been answered or aborted
Awaited(k) == {r \in DOMAIN requests : requests[r].state = "pending" /\ requests[r].key = k}

\* C29: activeRequests maps a cache key to a controller exactly when a fetch
\* for the key is in flight, and the controller is that of the fetch
\* initiated last for the key
C29_RegistryConsistent ==
    \A k \in CacheKeys :
        /\ activeRequests[k] # NULL <=> Awaited(k) # {}
        /\ activeRequests[k] # NULL =>
               /\ activeRequests[k] \in Awaited(k)
               /\ ~requests[activeRequests[k]].superseded

\* C30: when the fetch of a poll tick was aborted by a later fetch for the
\* same cache key, the poll does not replace a displayed series by an empty one
C30_AbortedPollKeepsSeries ==
    [][\A r \in 1..MaxFetches :
          (/\ requests[r].awaiter = "poll"
           /\ requests[r].state = "aborted"
           /\ requests'[r].state = "free"
           /\ chartData # <<>>)
          => chartData' # <<>>]_vars

====
